---- MODULE Spec2Model ----
(***************************************************************************)
(* AwareGuard backend: subscription state, module completion and quiz      *)
(* grading, modelled from the route handlers and the mongoose models.      *)
(*                                                                         *)
(* Time is counted in hours (in minutes where routes/auth.js is modelled).  *)
(* A Date is a natural number, null is NULL.                               *)
(* Every route handler is one action (requests do not overlap in Spec).    *)
(***************************************************************************)
EXTENDS Integers, Sequences, FiniteSets, TLC

VARIABLES
    users,      \* the User collection: userId -> document
    now,        \* the clock read by new Date() / Date.now()
    ticks,      \* number of clock advances so far (bounds the run)
    loaded,     \* the document the last handler got from User.findById
    response,   \* the last HTTP response (or method result), Idle after a tick
    router,     \* which payments router the deployment mounts
    quiz,       \* the Quiz collection: a sequence of question documents
    progress,   \* the UserProgress collection: userId -> document or NoDoc
    inflight,   \* the quiz submissions between two awaits: request -> position
    accounts,   \* the credentials of the User collection: email -> document or NoDoc
    resetAttempts, \* the resetAttempts Map of routes/auth.js: email -> timestamps
    contacts,   \* the Contact collection: a sequence of stored submissions
    strictQuery, \* mongoose's strictQuery option as the installed version defaults it
    history     \* what has happened so far (admitted attempts, issued and used
                \* tokens) and how many requests a behaviour may make

authVars == <<accounts, resetAttempts, contacts, strictQuery, history>>

vars == <<users, now, ticks, loaded, response, router, quiz, progress, inflight,
          accounts, resetAttempts, contacts, strictQuery, history>>

----------------------------------------------------------------------------
(* Bounds of the model *)

MaxTicks == 2
MaxHistory == 2
MaxAnswers == 3
MaxAttempts == 3
MaxRuns == 2
MaxStreak == 3
MaxBoardUsers == 3
CrowdSize == 101
MaxAuthRequests == 3
MaxResetRequests == 7

----------------------------------------------------------------------------
(* Program constants *)

NULL == -1
DayHours == 24
MonthHours == 720
YearHours == 8760
MonthlyKobo == 999900
AnnualKobo == 9999900
KoboPerNaira == 100
XpPerLevel == 500
PassingScore == 70
QuizTimeLimit == 1800
QuizPassXP == 15
DefaultPoints == 10
NaN == -1
DefaultLimit == 50
LimitCap == 100
WeekHours == 168
MonthWindowHours == 720
HourMinutes == 60
MaxRecentAttempts == 5
MinPasswordLength == 8

Undefined == "undefined"
NullPlan == "null"
NoRef == "null"

\* The users that have a document.  "u2" is a user id that occurs in payment
\* metadata and has no document here.
Users == {"u1"}

\* How far the clock moves between two requests: a day or a month
TickSteps == {DayHours, MonthHours}

\* learning.js MODULES: the source of truth for XP values
MODULES ==
    [ x \in {"phishing-basics", "password-security", "job-scam",
             "social-media-safety", "online-shopping-security",
             "social-engineering", "identity-theft", "advanced-phishing",
             "financial-fraud", "mobile-security", "corporate-security",
             "incident-response"} |->
        CASE x = "phishing-basics"          -> [xp |-> 10, premium |-> FALSE]
          [] x = "password-security"        -> [xp |-> 12, premium |-> FALSE]
          [] x = "job-scam"                 -> [xp |-> 15, premium |-> FALSE]
          [] x = "social-media-safety"      -> [xp |-> 12, premium |-> FALSE]
          [] x = "online-shopping-security" -> [xp |-> 10, premium |-> FALSE]
          [] x = "social-engineering"       -> [xp |-> 25, premium |-> TRUE]
          [] x = "identity-theft"           -> [xp |-> 20, premium |-> TRUE]
          [] x = "advanced-phishing"        -> [xp |-> 25, premium |-> TRUE]
          [] x = "financial-fraud"          -> [xp |-> 30, premium |-> TRUE]
          [] x = "mobile-security"          -> [xp |-> 20, premium |-> TRUE]
          [] x = "corporate-security"       -> [xp |-> 35, premium |-> TRUE]
          [] x = "incident-response"        -> [xp |-> 40, premium |-> TRUE] ]

\* moduleId values a client sends: a free module, a premium module,
\* a missing moduleId and an id that is not in MODULES
ModuleInputs == {"phishing-basics", "social-engineering", "", "no-such-module"}

----------------------------------------------------------------------------
(* The User document (schema defaults) *)

DefaultUser ==
    [ isPremium             |-> FALSE,
      subscriptionPlan      |-> "none",
      subscriptionExpiresAt |-> NULL,
      subscriptionStartedAt |-> NULL,
      paystackReference     |-> NoRef,
      lastPaymentAmount     |-> 0,
      paymentHistory        |-> << >>,
      totalXP               |-> 0,
      level                 |-> 1,
      completedModules      |-> << >>,
      streak                |-> 0,
      lastActivity          |-> NULL ]

NoDoc == [missing |-> TRUE]

\* The request slots of interleaved quiz submissions, all between requests
Requests == {"r1", "r2"}
NoRequests == [r \in Requests |-> [pc |-> "idle", runs |-> 0]]
Idle == [req |-> "none"]

\* The authentication state in the specifications that do not exercise it
NoHistory ==
    [ requests |-> 0,
      budget   |-> 0,
      admitted |-> [e \in {"a@x.io", "A@x.io"} |-> << >>],
      tokens   |-> << >>,
      used     |-> {} ]
AuthIdle ==
    /\ accounts = << >>
    /\ resetAttempts = [e \in {"a@x.io", "A@x.io"} |-> << >>]
    /\ contacts = << >>
    /\ strictQuery = FALSE
    /\ history = NoHistory

----------------------------------------------------------------------------
(* models/User.js: instance methods, as functions of the document and the  *)
(* clock                                                                   *)

\* a variant that trusts the stored flag
isSubscriptionActive_StoredFlag(user, t) == user.isPremium

isSubscriptionActive(user, t) ==
    IF ~user.isPremium THEN FALSE
    ELSE IF user.subscriptionExpiresAt = NULL THEN FALSE
    ELSE t < user.subscriptionExpiresAt

isSubscriptionExpired(user, t) ==
    IF user.subscriptionExpiresAt = NULL THEN FALSE
    ELSE t > user.subscriptionExpiresAt

checkAndDowngradePremium(user, t) ==
    IF user.isPremium /\ isSubscriptionExpired(user, t)
    THEN [user EXCEPT !.isPremium = FALSE,
                      !.subscriptionPlan = "none",
                      !.subscriptionExpiresAt = NULL]
    ELSE user

\* Math.ceil(a / b) for b > 0
CeilDiv(a, b) == -((-a) \div b)

Max(a, b) == IF a >= b THEN a ELSE b

getSubscriptionDetails(user, t) ==
    [ isPremium     |-> user.isPremium,
      plan          |-> user.subscriptionPlan,
      startsAt      |-> user.subscriptionStartedAt,
      expiresAt     |-> user.subscriptionExpiresAt,
      daysRemaining |-> IF user.isPremium /\ user.subscriptionExpiresAt # NULL
                        THEN CeilDiv(user.subscriptionExpiresAt - t, DayHours)
                        ELSE 0,
      lastPayment   |-> user.lastPaymentAmount,
      isActive      |-> isSubscriptionActive(user, t) ]

calculateLevel(user) == (user.totalXP \div XpPerLevel) + 1

\* a variant that stamps lastActivity on the same-day branch too
updateStreak_AlwaysStamp(user, t) ==
    IF user.lastActivity = NULL
    THEN [user EXCEPT !.streak = 1, !.lastActivity = t]
    ELSE LET daysSince == (t - user.lastActivity) \div DayHours IN
         IF daysSince = 0 THEN [user EXCEPT !.lastActivity = t]
         ELSE IF daysSince = 1
         THEN [user EXCEPT !.streak = user.streak + 1, !.lastActivity = t]
         ELSE [user EXCEPT !.streak = 1, !.lastActivity = t]

\* a variant that resets the streak as soon as more than 24 hours have passed
updateStreak_ResetAfterDay(user, t) ==
    IF user.lastActivity = NULL
    THEN [user EXCEPT !.streak = 1, !.lastActivity = t]
    ELSE IF t - user.lastActivity < DayHours THEN user
    ELSE IF t - user.lastActivity = DayHours
    THEN [user EXCEPT !.streak = user.streak + 1, !.lastActivity = t]
    ELSE [user EXCEPT !.streak = 1, !.lastActivity = t]

updateStreak(user, t) ==
    IF user.lastActivity = NULL
    THEN [user EXCEPT !.streak = 1, !.lastActivity = t]
    ELSE LET daysSince == (t - user.lastActivity) \div DayHours IN
         IF daysSince = 0 THEN user
         ELSE IF daysSince = 1
         THEN [user EXCEPT !.streak = user.streak + 1, !.lastActivity = t]
         ELSE [user EXCEPT !.streak = 1, !.lastActivity = t]

addXP(user, xpAmount) ==
    LET u1 == [user EXCEPT !.totalXP = user.totalXP + xpAmount]
    IN  [u1 EXCEPT !.level = calculateLevel(u1)]

Includes(seq, x) == \E i \in 1..Len(seq) : seq[i] = x

completeModule(user, moduleId) ==
    IF ~Includes(user.completedModules, moduleId)
    THEN [user EXCEPT !.completedModules = Append(user.completedModules, moduleId)]
    ELSE user

----------------------------------------------------------------------------
(* controllers/quizController.js: scoreQuiz *)

\* A question document of models/Quiz.js (the fields grading reads)
Question(questionId, moduleId, correctAnswer, points) ==
    [ questionId            |-> questionId,
      moduleId              |-> moduleId,
      questionText          |-> <<"text of", questionId>>,
      type                  |-> "mcq",
      difficulty            |-> "medium",
      options               |-> [i \in 1..4 |-> [index |-> i - 1,
                                                  text |-> <<"option", i - 1>>]],
      correctAnswer         |-> correctAnswer,
      explanation           |-> "explained",
      points                |-> points,
      correctExplanation    |-> "why-right",
      incorrectExplanations |-> << [optionIndex |-> 0, explanation |-> "why-not-0"] >> ]

\* the fields getQuizQuestions excludes from what it selects
HiddenFields ==
    {"correctAnswer", "explanation", "correctExplanation", "incorrectExplanations"}

\* .select('-correctAnswer -explanation -correctExplanation -incorrectExplanations')
Select(doc, excluded) == [f \in DOMAIN doc \ excluded |-> doc[f]]

\* Quiz.find({ moduleId })
QuizFind(collection, moduleId) ==
    SelectSeq(collection, LAMBDA q : q.moduleId = moduleId)

\* a variant that returns the documents whole
getQuizQuestions_Unselected(collection, moduleId) == QuizFind(collection, moduleId)

\* getQuizQuestions(moduleId)
getQuizQuestions(collection, moduleId) ==
    LET found == QuizFind(collection, moduleId)
    IN  [i \in 1..Len(found) |-> Select(found[i], HiddenFields)]

\* questions.map(q => ({ questionId, questionText, type, options, difficulty,
\* points }))
SafeQuestion(q) ==
    [ questionId   |-> q.questionId,
      questionText |-> q.questionText,
      type         |-> q.type,
      options      |-> q.options,
      difficulty   |-> q.difficulty,
      points       |-> q.points ]

\* GET /api/quizzes/:moduleId
GetQuiz(moduleId) ==
    /\ loaded' = NoDoc
    /\ UNCHANGED <<users, now, ticks, router, quiz, progress, inflight, authVars>>
    /\ LET questions == getQuizQuestions(quiz, moduleId) IN
       IF Len(questions) = 0
       THEN response' = [req |-> "quiz", moduleId |-> moduleId, status |-> 404,
                         message |-> "No quiz found for this module"]
       ELSE response' =
              [ req            |-> "quiz",
                moduleId       |-> moduleId,
                status         |-> 200,
                quizId         |-> <<"quiz-", moduleId>>,
                questions      |-> [i \in 1..Len(questions) |->
                                      SafeQuestion(questions[i])],
                totalQuestions |-> Len(questions),
                passingScore   |-> PassingScore,
                timeLimit      |-> QuizTimeLimit ]

\* questions.find(q => q.questionId === answer.questionId): the index of the
\* first match, 0 for undefined
FindQuestion(questions, questionId) ==
    LET hits == {i \in 1..Len(questions) : questions[i].questionId = questionId}
    IN  IF hits = {} THEN 0 ELSE CHOOSE i \in hits : \A j \in hits : i <= j

\* question.incorrectExplanations?.find(e => e.optionIndex === selected)?.explanation
IncorrectExplanation(question, selectedOption) ==
    LET es == question.incorrectExplanations
        hits == {i \in 1..Len(es) : es[i].optionIndex = selectedOption}
    IN  IF hits = {} THEN Undefined
        ELSE es[CHOOSE i \in hits : \A j \in hits : i <= j].explanation

\* a variant that gives every question the default points
PointsFor_AlwaysDefault(question) == DefaultPoints

\* question.points || 10
PointsFor(question) ==
    IF question.points = 0 THEN DefaultPoints ELSE question.points

\* Math.round((earned / total) * 100): NaN for 0 / 0, else the nearest integer,
\* halves up.  (Exact arithmetic: it agrees with the double-precision result
\* for every total below 40, which covers the totals of this model.)
RoundPercent(earned, total) ==
    IF total = 0 THEN NaN ELSE (200 * earned + total) \div (2 * total)

\* percentage >= 70, false for NaN
IsPassing(percentage) == percentage # NaN /\ percentage >= PassingScore

\* the grading loop: for (let answer of userAnswers) { ... }
RECURSIVE GradeLoop(_, _, _)
GradeLoop(questions, userAnswers, acc) ==
    IF userAnswers = << >> THEN acc
    ELSE LET answer == Head(userAnswers)
             i == FindQuestion(questions, answer.questionId)
         IN  IF i = 0 THEN GradeLoop(questions, Tail(userAnswers), acc)
             ELSE LET question == questions[i]
                      isCorrect == question.correctAnswer = answer.selectedOption
                      pointsForQuestion == PointsFor(question)
                  IN  GradeLoop(questions, Tail(userAnswers),
                        [ totalPoints  |-> acc.totalPoints + pointsForQuestion,
                          earnedPoints |-> IF isCorrect
                                           THEN acc.earnedPoints + pointsForQuestion
                                           ELSE acc.earnedPoints,
                          answers      |-> Append(acc.answers,
                            [ questionId     |-> answer.questionId,
                              selectedOption |-> answer.selectedOption,
                              correct        |-> isCorrect,
                              points         |-> pointsForQuestion,
                              explanation    |->
                                  IF isCorrect THEN question.correctExplanation
                                  ELSE IncorrectExplanation(question,
                                                            answer.selectedOption) ]) ])

\* scoreQuiz(moduleId, userAnswers, userId, timeSpent): the result, or the
\* error it throws
scoreQuiz(collection, moduleId, userAnswers) ==
    LET questions == QuizFind(collection, moduleId) IN
    IF Len(questions) = 0 THEN [error |-> "Quiz not found"]
    ELSE LET g == GradeLoop(questions, userAnswers,
                    [totalPoints |-> 0, earnedPoints |-> 0, answers |-> << >>])
             percentage == RoundPercent(g.earnedPoints, g.totalPoints)
             passed == IsPassing(percentage)
         IN  [ error       |-> "none",
               score       |-> g.earnedPoints,
               totalPoints |-> g.totalPoints,
               percentage  |-> percentage,
               passed      |-> passed,
               xpEarned    |-> IF passed THEN QuizPassXP ELSE 0,
               answers     |-> g.answers,
               feedback    |-> [i \in 1..Len(g.answers) |->
                                  [ questionId  |-> g.answers[i].questionId,
                                    correct     |-> g.answers[i].correct,
                                    explanation |-> g.answers[i].explanation ]] ]

\* scoreQuiz applied to a submission.  It reads only the bank and its arguments,
\* so a behaviour scores one submission against the bank it started with.
ScoreQuiz(moduleId, userAnswers) ==
    /\ response = Idle
    /\ response' = [req |-> "scoreQuiz", moduleId |-> moduleId,
                    answers |-> userAnswers,
                    result |-> scoreQuiz(quiz, moduleId, userAnswers)]
    /\ loaded' = NoDoc
    /\ UNCHANGED <<users, now, ticks, router, quiz, progress, inflight, authVars>>

----------------------------------------------------------------------------
(* models/UserProgress.js and the persistence half of quizController.js *)

\* a UserProgress document (the fields the quiz flow reads or writes)
ProgressDoc(totalXP, completedModules, statistics, t) ==
    [ totalXP          |-> totalXP,
      level            |-> totalXP \div XpPerLevel + 1,
      completedModules |-> completedModules,
      statistics       |-> statistics,
      updatedAt        |-> t ]

\* the schema defaults of statistics
DefaultStatistics ==
    [ totalQuizzesAttempted |-> 0,
      totalQuizzesPass      |-> 0,
      averageQuizScore      |-> 0,
      lastQuizCompletedAt   |-> NULL ]

\* a variant of the hook that only stamps updatedAt
preSave_KeepLevel(doc, t) == [doc EXCEPT !.updatedAt = t]

\* userProgressSchema.pre('save'): level = floor(totalXP / 500) + 1
preSave(doc, t) ==
    [doc EXCEPT !.level = doc.totalXP \div XpPerLevel + 1, !.updatedAt = t]

\* completedModules.find(m => m.moduleId === moduleId): index, 0 for undefined
FindModule(completedModules, moduleId) ==
    LET hits == {i \in 1..Len(completedModules) :
                    completedModules[i].moduleId = moduleId}
    IN  IF hits = {} THEN 0 ELSE CHOOSE i \in hits : \A j \in hits : i <= j

\* completedModules.flatMap(m => m.quizAttempts || [])
RECURSIVE AllAttempts(_)
AllAttempts(completedModules) ==
    IF completedModules = << >> THEN << >>
    ELSE Head(completedModules).quizAttempts \o AllAttempts(Tail(completedModules))

\* allAttempts.reduce((sum, a) => sum + a.percentage, 0): NaN is absorbing
RECURSIVE SumPercentages(_)
SumPercentages(attempts) ==
    IF attempts = << >> THEN 0
    ELSE LET rest == SumPercentages(Tail(attempts))
         IN  IF Head(attempts).percentage = NaN \/ rest = NaN THEN NaN
             ELSE Head(attempts).percentage + rest

\* Math.round(sum / allAttempts.length)
AverageScore(attempts) ==
    LET sum == SumPercentages(attempts) IN
    IF Len(attempts) = 0 \/ sum = NaN THEN NaN
    ELSE (2 * sum + Len(attempts)) \div (2 * Len(attempts))

\* the attempt as quizSubmissionSchema stores it (answers keep the schema's
\* four fields)
QuizAttempt(moduleId, scoreResult, timeSpent, t) ==
    [ quizId           |-> <<"quiz-", moduleId>>,
      moduleId         |-> moduleId,
      submittedAt      |-> t,
      score            |-> scoreResult.score,
      percentage       |-> scoreResult.percentage,
      passed           |-> scoreResult.passed,
      timeSpentSeconds |-> timeSpent,
      answers          |-> [i \in 1..Len(scoreResult.answers) |->
                              [ questionId     |-> scoreResult.answers[i].questionId,
                                selectedOption |-> scoreResult.answers[i].selectedOption,
                                correct        |-> scoreResult.answers[i].correct,
                                points         |-> scoreResult.answers[i].points ]] ]

\* a variant that creates the document of a user who has none
saveQuizSubmission_Upsert(doc, moduleId, scoreResult, timeSpent, t) ==
    IF doc = NoDoc
    THEN [error |-> "none", doc |-> ProgressDoc(0, << >>, DefaultStatistics, t)]
    ELSE [error |-> "UserProgress validation failed"]

\* saveQuizSubmission(userId, moduleId, scoreResult, timeSpent) on a loaded
\* document: the document save() persists, or the error thrown.  A module
\* record created here is pushed as a plain object that Mongoose casts to a new
\* subdocument, so the attempt pushed on the plain object afterwards is not in
\* the document; an attempt pushed on an existing subdocument is.  A NaN in a
\* Number path fails the cast and save() rejects.
saveQuizSubmission(doc, moduleId, scoreResult, timeSpent, t) ==
    IF doc = NoDoc THEN [error |-> "User progress not found"]
    ELSE LET i == FindModule(doc.completedModules, moduleId)
             attempt == QuizAttempt(moduleId, scoreResult, timeSpent, t)
             modules ==
                 IF i = 0
                 THEN Append(doc.completedModules,
                             [ moduleId     |-> moduleId,
                               completedAt  |-> t,
                               xpEarned     |-> 0,
                               quizAttempts |-> << >> ])
                 ELSE [doc.completedModules EXCEPT
                          ![i].quizAttempts = Append(@, attempt)]
             avgScore == AverageScore(AllAttempts(modules))
             statistics ==
                 [ totalQuizzesAttempted |-> doc.statistics.totalQuizzesAttempted + 1,
                   totalQuizzesPass      |-> IF scoreResult.passed
                                             THEN doc.statistics.totalQuizzesPass + 1
                                             ELSE doc.statistics.totalQuizzesPass,
                   averageQuizScore      |-> avgScore,
                   lastQuizCompletedAt   |-> t ]
         IN  IF avgScore = NaN
             THEN [error |-> "UserProgress validation failed"]
             ELSE [error |-> "none",
                   doc   |-> preSave([doc EXCEPT !.completedModules = modules,
                                                 !.statistics = statistics], t)]

\* awardQuizXP(userId, moduleId, xpEarned) on a loaded document
awardQuizXP(doc, xpEarned, t) ==
    IF doc = NoDoc THEN [error |-> "User progress not found"]
    ELSE [error |-> "none",
          doc   |-> preSave([doc EXCEPT !.totalXP = @ + xpEarned], t)]

SubmitError(u, moduleId, message) ==
    [req |-> "submit", user |-> u, moduleId |-> moduleId, status |-> 500,
     error |-> message]

\* a variant in which a passed quiz also adds its XP to the User document
UsersAfterQuiz_OneLedger(u, moduleId, userAnswers) ==
    LET result == scoreQuiz(quiz, moduleId, userAnswers) IN
    IF result.error = "none" /\ progress[u] # NoDoc /\ result.passed
    THEN [users EXCEPT ![u] = addXP(@, result.xpEarned)]
    ELSE users

\* the User collection after a submission: scoreQuiz, saveQuizSubmission and
\* awardQuizXP read Quiz and write UserProgress, and nothing else
UsersAfterQuiz(u, moduleId, userAnswers) == users

\* POST /api/quizzes/:quizId/submit
SubmitQuiz(u, moduleId, userAnswers, timeSpent) ==
    /\ progress[u] # NoDoc =>
           progress[u].statistics.totalQuizzesAttempted < MaxAttempts
    /\ loaded' = NoDoc
    /\ users' = UsersAfterQuiz(u, moduleId, userAnswers)
    /\ UNCHANGED <<now, ticks, router, quiz, inflight, authVars>>
    /\ LET result == scoreQuiz(quiz, moduleId, userAnswers) IN
       IF result.error # "none"
       THEN /\ response' = SubmitError(u, moduleId, result.error)
            /\ UNCHANGED progress
       ELSE LET saved == saveQuizSubmission(progress[u], moduleId, result,
                                            timeSpent, now)
            IN  IF saved.error # "none"
                THEN /\ response' = SubmitError(u, moduleId, saved.error)
                     /\ UNCHANGED progress
                ELSE LET awarded == IF result.passed
                                    THEN awardQuizXP(saved.doc, result.xpEarned, now)
                                    ELSE saved
                     IN  /\ progress' = [progress EXCEPT ![u] = awarded.doc]
                         /\ response' =
                              [ req        |-> "submit",
                                user       |-> u,
                                moduleId   |-> moduleId,
                                status     |-> 200,
                                score      |-> result.score,
                                percentage |-> result.percentage,
                                passed     |-> result.passed,
                                xpEarned   |-> result.xpEarned ]

----------------------------------------------------------------------------
(* POST /api/quizzes/:quizId/submit as the steps between its awaits.  Each     *)
(* findOne gives the request a copy of the stored document; save() sends the  *)
(* paths the request changed on its copy ($set for values, $push for array    *)
(* elements) with no condition on what is stored by then.                     *)

\* $push of what the copy gained over the document as loaded: an attempt on a
\* module record that existed, or module records at the end
PushModules(stored, asLoaded, modified) ==
    [ i \in 1..Len(stored) |->
        IF /\ i <= Len(asLoaded)
           /\ Len(modified[i].quizAttempts) > Len(asLoaded[i].quizAttempts)
        THEN [stored[i] EXCEPT !.quizAttempts =
                 Append(@, modified[i].quizAttempts[Len(modified[i].quizAttempts)])]
        ELSE stored[i] ]
    \o SubSeq(modified, Len(asLoaded) + 1, Len(modified))

\* $set of a path the copy changed
SetIfModified(stored, asLoaded, modified) ==
    IF modified = asLoaded THEN stored ELSE modified

\* document.save() of a copy loaded as asLoaded and changed to modified
Persist(stored, asLoaded, modified) ==
    [ totalXP          |-> SetIfModified(stored.totalXP, asLoaded.totalXP,
                                         modified.totalXP),
      level            |-> SetIfModified(stored.level, asLoaded.level,
                                         modified.level),
      completedModules |-> PushModules(stored.completedModules,
                                       asLoaded.completedModules,
                                       modified.completedModules),
      statistics       |->
          [ f \in DOMAIN stored.statistics |->
              SetIfModified(stored.statistics[f], asLoaded.statistics[f],
                            modified.statistics[f]) ],
      updatedAt        |-> SetIfModified(stored.updatedAt, asLoaded.updatedAt,
                                         modified.updatedAt) ]

Finished(r) == [pc |-> "idle", runs |-> inflight[r].runs]

\* the handler up to the findOne of saveQuizSubmission
BeginSubmit(r, u, moduleId, userAnswers, timeSpent) ==
    /\ inflight[r].pc = "idle"
    /\ inflight[r].runs < MaxRuns
    /\ loaded' = NoDoc
    /\ UNCHANGED <<users, now, ticks, router, quiz, progress, authVars>>
    /\ LET result == scoreQuiz(quiz, moduleId, userAnswers)
           started == [pc |-> "idle", runs |-> inflight[r].runs + 1]
       IN  IF result.error # "none"
           THEN /\ response' = SubmitError(u, moduleId, result.error)
                /\ inflight' = [inflight EXCEPT ![r] = started]
           ELSE IF progress[u] = NoDoc
           THEN /\ response' = SubmitError(u, moduleId, "User progress not found")
                /\ inflight' = [inflight EXCEPT ![r] = started]
           ELSE /\ UNCHANGED response
                /\ inflight' = [inflight EXCEPT ![r] =
                      [ pc |-> "save", runs |-> inflight[r].runs + 1,
                        user |-> u, moduleId |-> moduleId, result |-> result,
                        timeSpent |-> timeSpent, doc |-> progress[u] ]]

SubmitReply(req) ==
    [ req        |-> "submit",
      user       |-> req.user,
      moduleId   |-> req.moduleId,
      status     |-> 200,
      score      |-> req.result.score,
      percentage |-> req.result.percentage,
      passed     |-> req.result.passed,
      xpEarned   |-> req.result.xpEarned ]

\* saveQuizSubmission from its findOne to its save()
SaveSubmission(r) ==
    /\ inflight[r].pc = "save"
    /\ loaded' = NoDoc
    /\ UNCHANGED <<users, now, ticks, router, quiz, authVars>>
    /\ LET req == inflight[r]
           saved == saveQuizSubmission(req.doc, req.moduleId, req.result,
                                       req.timeSpent, now)
       IN  IF saved.error # "none"
           THEN /\ response' = SubmitError(req.user, req.moduleId, saved.error)
                /\ inflight' = [inflight EXCEPT ![r] = Finished(r)]
                /\ UNCHANGED progress
           ELSE /\ progress' = [progress EXCEPT ![req.user] =
                                   Persist(@, req.doc, saved.doc)]
                /\ IF req.result.passed
                   THEN /\ inflight' = [inflight EXCEPT ![r].pc = "award"]
                        /\ UNCHANGED response
                   ELSE /\ inflight' = [inflight EXCEPT ![r] = Finished(r)]
                        /\ response' = SubmitReply(req)

\* awardQuizXP: its findOne
AwardFind(r) ==
    /\ inflight[r].pc = "award"
    /\ inflight' = [inflight EXCEPT ![r].pc = "awardSave",
                                    ![r].doc = progress[inflight[r].user]]
    /\ UNCHANGED <<users, now, ticks, loaded, response, router, quiz, progress, authVars>>

\* awardQuizXP: totalXP += xpEarned on the copy, save(), and the response
AwardSave(r) ==
    /\ inflight[r].pc = "awardSave"
    /\ loaded' = NoDoc
    /\ UNCHANGED <<users, now, ticks, router, quiz, authVars>>
    /\ LET req == inflight[r]
           awarded == awardQuizXP(req.doc, req.result.xpEarned, now)
       IN  /\ progress' = [progress EXCEPT ![req.user] =
                              Persist(@, req.doc, awarded.doc)]
           /\ inflight' = [inflight EXCEPT ![r] = Finished(r)]
           /\ response' = SubmitReply(req)

\* user.updateStreak() on a loaded user, saved
UpdateStreak(u) ==
    /\ response = Idle
    /\ loaded' = users[u]
    /\ users' = [users EXCEPT ![u] = updateStreak(@, now)]
    /\ response' = [req |-> "updateStreak", user |-> u,
                    streak |-> updateStreak(users[u], now).streak]
    /\ UNCHANGED <<now, ticks, router, quiz, progress, inflight, authVars>>

----------------------------------------------------------------------------
(* routes/learning.js: GET /api/learning/leaderboard *)

\* a query parameter that is not in the request
Absent == << >>

\* numbers of the limit computation: an integer or NaN
Num(n) == [nan |-> FALSE, value |-> n]
NotANumber == [nan |-> TRUE]

Digits == {"0", "1", "2", "3", "4", "5", "6", "7", "8", "9"}

DigitValue(c) ==
    CASE c = "0" -> 0 [] c = "1" -> 1 [] c = "2" -> 2 [] c = "3" -> 3
      [] c = "4" -> 4 [] c = "5" -> 5 [] c = "6" -> 6 [] c = "7" -> 7
      [] c = "8" -> 8 [] c = "9" -> 9

\* the value of the longest prefix of digits, acc being the value so far
RECURSIVE LeadingDigits(_, _)
LeadingDigits(chars, acc) ==
    IF chars = << >> \/ Head(chars) \notin Digits THEN acc
    ELSE LeadingDigits(Tail(chars), 10 * acc + DigitValue(Head(chars)))

\* parseInt(string): an optional sign, then the leading digits; NaN without a
\* leading digit
ParseInt(chars) ==
    LET negative == chars # << >> /\ Head(chars) = "-"
        signed == chars # << >> /\ Head(chars) \in {"-", "+"}
        body == IF signed THEN Tail(chars) ELSE chars
    IN  IF body = << >> \/ Head(body) \notin Digits THEN NotANumber
        ELSE IF negative THEN Num(0 - LeadingDigits(body, 0))
        ELSE Num(LeadingDigits(body, 0))

\* Math.min(x, 100): NaN when x is NaN
MathMin(x, n) ==
    IF x.nan THEN NotANumber
    ELSE IF x.value < n THEN x ELSE Num(n)

\* const { limit = 50 } = req.query; Math.min(parseInt(limit), 100)
MaxLimit(limit) ==
    MathMin(IF limit = Absent THEN Num(DefaultLimit) ELSE ParseInt(limit), LimitCap)

\* the lastActivity filter of the query
MatchesTimeframe(user, timeframe, t) ==
    IF timeframe = "week"
    THEN user.lastActivity # NULL /\ user.lastActivity >= t - WeekHours
    ELSE IF timeframe = "month"
    THEN user.lastActivity # NULL /\ user.lastActivity >= t - MonthWindowHours
    ELSE TRUE

\* a comparator that sorts by totalXP ascending
Precedes_Ascending(a, b) == a.totalXP < b.totalXP

\* sort({ totalXP: -1 }): a comes before b
Precedes(a, b) == a.totalXP > b.totalXP

\* the order in which the store happens to hold documents of equal totalXP:
\* any one (it plays no part when all totalXP differ)
TieKeys(docs, ids) ==
    IF \E x \in ids : \E y \in ids : x # y /\ docs[x].totalXP = docs[y].totalXP
    THEN Permutations(ids)
    ELSE { [x \in ids |-> x] }

\* the place of document x in the result
Position(docs, ids, key, x) ==
    1 + Cardinality({ y \in ids :
            \/ Precedes(docs[y], docs[x])
            \/ (~Precedes(docs[x], docs[y]) /\ key[y] < key[x]) })

SortedBy(docs, ids, key) ==
    [ i \in 1..Cardinality(ids) |->
        CHOOSE x \in ids : Position(docs, ids, key, x) = i ]

\* the orders the sort may return of a set of user ids
SortedOrders(docs, ids) ==
    { SortedBy(docs, ids, key) : key \in TieKeys(docs, ids) }

\* cursor.limit(n): n documents for n > 0, all for 0, -n (one batch) for n < 0
Limited(order, n) ==
    IF n = 0 THEN order
    ELSE LET k == IF n < 0 THEN 0 - n ELSE n
         IN  IF Len(order) <= k THEN order ELSE SubSeq(order, 1, k)

\* users.map((user, index) => ({ rank: index + 1, ... }))
Ranked(docs, order) ==
    [ i \in 1..Len(order) |->
        [ rank    |-> i,
          name    |-> order[i],
          totalXP |-> docs[order[i]].totalXP,
          level   |-> docs[order[i]].level,
          streak  |-> docs[order[i]].streak ] ]

LeaderboardReply(timeframe, limit, status, entries) ==
    [ req |-> "leaderboard", timeframe |-> timeframe, limit |-> limit,
      status |-> status, leaderboard |-> entries, totalUsers |-> Len(entries) ]

\* GET /leaderboard.  A NaN limit reaches the driver as it is: the find fails
\* (500) or runs without a limit, depending on the driver and server.  The
\* handler writes nothing, so a behaviour answers one request against the
\* population it started with.
Leaderboard(timeframeParam, limit) ==
    /\ response = Idle
    /\ loaded' = NoDoc
    /\ UNCHANGED <<users, now, ticks, router, quiz, progress, inflight, authVars>>
    /\ LET timeframe == IF timeframeParam = Undefined THEN "all"
                        ELSE timeframeParam
           maxLimit == MaxLimit(limit)
           matching == {u \in DOMAIN users :
                           MatchesTimeframe(users[u], timeframe, now)}
       IN  \E order \in SortedOrders(users, matching) :
              IF maxLimit.nan
              THEN \/ response' = LeaderboardReply(timeframe, limit, 500, << >>)
                   \/ response' = LeaderboardReply(timeframe, limit, 200,
                                                   Ranked(users, order))
              ELSE response' = LeaderboardReply(timeframe, limit, 200,
                                  Ranked(users, Limited(order, maxLimit.value)))

----------------------------------------------------------------------------
(* routes/auth.js, utils/tokenUtils.js and routes/contact.js.  Here the clock *)
(* counts minutes.  The users collection is a sequence in insertion order;    *)
(* a stored document has the paths of userSchema and no other.                *)

\* req.body.email: two spellings of one address, and no address
Emails == {"a@x.io", "A@x.io"}
EmailInputs == Emails \cup {""}

\* email: { lowercase: true }, applied to documents and to query filters
Lowercase(email) == IF email = "A@x.io" THEN "a@x.io" ELSE email

\* req.body.password
Passwords == {"", "short", "password-2"}

\* password.length
Length(password) ==
    CASE password = ""      -> 0
      [] password = "short" -> 5
      [] OTHER              -> 10

\* bcrypt.hash(plain, 10), told apart by what bcrypt.compare accepts
BcryptHash(plain) == <<"bcrypt", plain>>

\* the paths of userSchema that the authentication routes read or write
SchemaPaths == {"name", "email", "passwordHash", "role", "isPremium"}

\* strict mode: what save() stores of a document
Stored(doc) == [f \in DOMAIN doc \cap SchemaPaths |-> doc[f]]

\* new User({ name, email })
NewUser(name, email) ==
    [name |-> name, email |-> Lowercase(email), role |-> "user", isPremium |-> FALSE]

\* a condition of a query filter
Eq(value) == [op |-> "eq", value |-> value]
Gt(value) == [op |-> "gt", value |-> value]

\* the filter as mongoose sends it: with strictQuery the paths that are not in
\* the schema are removed from it
CastFilter(filter) ==
    [f \in (IF strictQuery THEN DOMAIN filter \cap SchemaPaths ELSE DOMAIN filter)
        |-> filter[f]]

\* whether a stored document satisfies a filter
Matches(doc, filter) ==
    \A f \in DOMAIN filter :
        /\ f \in DOMAIN doc
        /\ IF filter[f].op = "eq" THEN doc[f] = filter[f].value
                                  ELSE doc[f] > filter[f].value

\* User.findOne(filter): the index of the first match, 0 when there is none
FindOne(collection, filter) ==
    LET cast == CastFilter(filter)
        hits == {i \in 1..Len(collection) : Matches(collection[i], cast)}
    IN  IF hits = {} THEN 0 ELSE CHOOSE i \in hits : \A j \in hits : i <= j

\* createToken(user)
createToken(user) == <<"jwt", user.email, user.role>>

\* generateResetToken(): the n-th token is n
generateResetToken == Len(history.tokens) + 1

\* hashToken(token)
hashToken(token) == <<"sha256", token>>

\* createPasswordResetToken()
createPasswordResetToken ==
    [ token       |-> generateResetToken,
      hashedToken |-> hashToken(generateResetToken),
      expires     |-> now + HourMinutes ]

\* a variant of the filter that keeps every attempt
RecentAttempts_KeepAll(attempts, t) == attempts

\* attempts.filter(time => now - time < 60 * 60 * 1000)
RecentAttempts(attempts, t) ==
    SelectSeq(attempts, LAMBDA time : t - time < HourMinutes)

\* checkRateLimit(email): its result and the Map afterwards
checkRateLimit(email) ==
    LET recentAttempts == RecentAttempts(resetAttempts[email], now) IN
    IF Len(recentAttempts) >= MaxRecentAttempts
    THEN [ok |-> FALSE, attempts |-> resetAttempts]
    ELSE [ok |-> TRUE,
          attempts |-> [resetAttempts EXCEPT ![email] = Append(recentAttempts, now)]]

\* one more request in the history
Counted == [history EXCEPT !.requests = @ + 1]

AuthReply(req, status, fields) ==
    [f \in {"req", "status"} \cup DOMAIN fields |->
        IF f = "req" THEN req ELSE IF f = "status" THEN status ELSE fields[f]]

\* a variant in which the welcome email is awaited and its failure thrown
Welcome_Awaited(delivered) == IF delivered THEN "continue" ELSE "throw"

\* sendWelcomeEmail(email, name).catch(err => log): the promise is not awaited,
\* and sendWelcomeEmail resolves to null when the provider fails
Welcome(delivered) == "continue"

\* POST /api/auth/signup
Signup(name, email, password, delivered) ==
    /\ history.requests < history.budget
    /\ loaded' = NoDoc
    /\ history' = Counted
    /\ UNCHANGED <<users, now, ticks, router, quiz, progress, inflight,
                   resetAttempts, contacts, strictQuery>>
    /\ IF email = "" \/ password = ""
       THEN /\ response' = AuthReply("signup", 400,
                               [error |-> "Email and password required"])
            /\ UNCHANGED accounts
       ELSE IF FindOne(accounts, [email |-> Eq(Lowercase(email))]) # 0
       THEN /\ response' = AuthReply("signup", 409,
                               [error |-> "Email already registered"])
            /\ UNCHANGED accounts
       ELSE LET user == [f \in {"name", "email", "role", "isPremium", "passwordHash"} |->
                            IF f = "passwordHash" THEN BcryptHash(password)
                            ELSE NewUser(name, email)[f]]
            IN  /\ accounts' = Append(accounts, Stored(user))
                /\ response' =
                     IF Welcome(delivered) = "throw"
                     THEN AuthReply("signup", 500,
                              [error |-> "Signup failed", email |-> user.email,
                               emailFailed |-> ~delivered])
                     ELSE AuthReply("signup", 200,
                              [token |-> createToken(user), email |-> user.email,
                               emailFailed |-> ~delivered])

\* POST /api/auth/forgot-password
ForgotPassword(email, delivered) ==
    /\ history.requests < history.budget
    /\ UNCHANGED <<users, now, ticks, router, quiz, progress, inflight,
                   contacts, strictQuery>>
    /\ IF email = ""
       THEN /\ response' = AuthReply("forgot-password", 400,
                               [email |-> email, error |-> "Email is required"])
            /\ loaded' = NoDoc
            /\ history' = Counted
            /\ UNCHANGED <<accounts, resetAttempts>>
       ELSE LET limit == checkRateLimit(email)
                found == FindOne(accounts, [email |-> Eq(Lowercase(email))])
                issued == createPasswordResetToken
            IN
            IF ~limit.ok
            THEN /\ response' = AuthReply("forgot-password", 429, [email |-> email])
                 /\ loaded' = NoDoc
                 /\ history' = Counted
                 /\ UNCHANGED <<accounts, resetAttempts>>
            ELSE
            /\ resetAttempts' = limit.attempts
            /\ IF found = 0
               THEN /\ response' = AuthReply("forgot-password", 200,
                                       [email |-> email, token |-> 0])
                    /\ loaded' = NoDoc
                    /\ history' = [Counted EXCEPT
                                     !.admitted[email] = Append(@, now)]
                    /\ UNCHANGED accounts
               ELSE \* the token is set on the document in memory; save() stores
                    \* the paths of the schema
                    LET user == [f \in DOMAIN accounts[found]
                                       \cup {"passwordResetToken", "passwordResetExpires"} |->
                                    IF f = "passwordResetToken" THEN issued.hashedToken
                                    ELSE IF f = "passwordResetExpires" THEN issued.expires
                                    ELSE accounts[found][f]]
                    IN  /\ accounts' = [accounts EXCEPT ![found] = Stored(user)]
                        /\ loaded' = user
                        /\ history' = [Counted EXCEPT
                                         !.admitted[email] = Append(@, now),
                                         !.tokens = Append(@,
                                              [owner |-> user.email,
                                               expires |-> issued.expires])]
                        /\ response' =
                             IF delivered
                             THEN AuthReply("forgot-password", 200,
                                      [email |-> email, token |-> issued.token])
                             ELSE AuthReply("forgot-password", 500,
                                      [email |-> email, token |-> issued.token])

\* a variant in which the confirmation email is awaited outside the try
Confirmation_Uncaught(delivered) == IF delivered THEN "continue" ELSE "throw"

\* try { await sendPasswordResetConfirmation(...) } catch (emailError) { log }
Confirmation(delivered) == "continue"

\* POST /api/auth/reset-password/:token
ResetPassword(token, password, delivered) ==
    /\ history.requests < history.budget
    /\ UNCHANGED <<users, now, ticks, router, quiz, progress, inflight,
                   resetAttempts, contacts, strictQuery>>
    /\ loaded' = NoDoc
    /\ IF password = ""
       THEN /\ response' = AuthReply("reset-password", 400,
                               [token |-> token, error |-> "New password is required"])
            /\ history' = Counted
            /\ UNCHANGED accounts
       ELSE IF Length(password) < MinPasswordLength
       THEN /\ response' = AuthReply("reset-password", 400,
                               [token |-> token,
                                error |-> "Password must be at least 8 characters"])
            /\ history' = Counted
            /\ UNCHANGED accounts
       ELSE LET found == FindOne(accounts,
                            [passwordResetToken   |-> Eq(hashToken(token)),
                             passwordResetExpires |-> Gt(now)])
            IN
            IF found = 0
            THEN /\ response' = AuthReply("reset-password", 400,
                                    [token |-> token,
                                     error |-> "Invalid or expired password reset token"])
                 /\ history' = Counted
                 /\ UNCHANGED accounts
            ELSE /\ accounts' = [accounts EXCEPT
                                   ![found].passwordHash = BcryptHash(password)]
                 /\ history' = [Counted EXCEPT !.used = @ \cup {token}]
                 /\ response' =
                      IF Confirmation(delivered) = "throw"
                      THEN AuthReply("reset-password", 500,
                               [token |-> token, email |-> accounts[found].email,
                                password |-> password,
                                emailFailed |-> ~delivered])
                      ELSE AuthReply("reset-password", 200,
                               [token |-> token, email |-> accounts[found].email,
                                password |-> password,
                                emailFailed |-> ~delivered])

\* a variant in which the notification is awaited outside the try
Notification_Uncaught(delivered) == IF delivered THEN "continue" ELSE "throw"

\* try { await sendContactNotification(...) } catch (emailError) { log }
Notification(delivered) == "continue"

\* req.body of POST /api/contact: complete, without a message, with a malformed
\* email
ContactBodies ==
    { [name |-> "Ada", email |-> "a@x.io", inquiryType |-> "general", message |-> "hello"],
      [name |-> "Ada", email |-> "a@x.io", inquiryType |-> "general", message |-> ""],
      [name |-> "Ada", email |-> "not-an-email", inquiryType |-> "general",
       message |-> "hello"] }

\* emailRegex.test(email)
ValidEmail(email) == email # "not-an-email"

\* POST /api/contact, the handler behind contactLimiter
Contact(body, delivered) ==
    /\ history.requests < history.budget
    /\ UNCHANGED <<users, now, ticks, router, quiz, progress, inflight,
                   accounts, resetAttempts, strictQuery>>
    /\ loaded' = NoDoc
    /\ history' = Counted
    /\ IF body.name = "" \/ body.email = "" \/ body.inquiryType = "" \/ body.message = ""
       THEN /\ response' = AuthReply("contact", 400, [error |-> "required fields"])
            /\ UNCHANGED contacts
       ELSE IF ~ValidEmail(body.email)
       THEN /\ response' = AuthReply("contact", 400, [error |-> "valid email"])
            /\ UNCHANGED contacts
       ELSE /\ contacts' = Append(contacts, body)
            /\ response' =
                 IF Notification(delivered) = "throw"
                 THEN AuthReply("contact", 500, [emailFailed |-> ~delivered])
                 ELSE AuthReply("contact", 200,
                          [success |-> TRUE, emailFailed |-> ~delivered])

\* minutes between two requests
AuthTickSteps == {30}

AuthTick ==
    /\ ticks < MaxTicks
    /\ \E d \in AuthTickSteps : now' = now + d
    /\ ticks' = ticks + 1
    /\ loaded' = NoDoc
    /\ response' = Idle
    /\ UNCHANGED <<users, router, quiz, progress, inflight, authVars>>

----------------------------------------------------------------------------
(* routes/api/quizzes.js: GET /api/quizzes/stats/module/:moduleId *)

\* who sends a request: nobody signed in, a signed-in user, a signed-in admin
Callers ==
    { [authenticated |-> FALSE, role |-> "none"],
      [authenticated |-> TRUE,  role |-> "user"],
      [authenticated |-> TRUE,  role |-> "admin"] }

\* UserProgress.find({ 'completedModules.moduleId': moduleId })
ProgressWithModule(moduleId) ==
    {u \in Users : /\ progress[u] # NoDoc
                   /\ FindModule(progress[u].completedModules, moduleId) # 0}

\* the attempts of the module over all the progress records found
RECURSIVE ModuleAttempts(_, _)
ModuleAttempts(found, moduleId) ==
    IF found = {} THEN << >>
    ELSE LET u == CHOOSE x \in found : TRUE
             doc == progress[u]
         IN  doc.completedModules[FindModule(doc.completedModules, moduleId)].quizAttempts
               \o ModuleAttempts(found \ {u}, moduleId)

\* allAttempts.filter(a => a.passed).length
PassedCount(attempts) == Cardinality({i \in 1..Len(attempts) : attempts[i].passed})

\* Math.round((passedCount / allAttempts.length) * 100)
PassRate(attempts) ==
    IF Len(attempts) = 0 THEN 0
    ELSE (200 * PassedCount(attempts) + Len(attempts)) \div (2 * Len(attempts))

\* [...scores].sort((a, b) => a - b): the k-th smallest percentage
Smallest(attempts, k) ==
    CHOOSE v \in {attempts[i].percentage : i \in 1..Len(attempts)} :
        /\ Cardinality({i \in 1..Len(attempts) : attempts[i].percentage < v}) < k
        /\ Cardinality({i \in 1..Len(attempts) : attempts[i].percentage <= v}) >= k

\* calculateMedian(scores), as twice the median (the mean of the two middle
\* scores need not be whole)
TwiceMedian(attempts) ==
    LET n == Len(attempts)
        mid == n \div 2
    IN  IF n = 0 THEN 0
        ELSE IF n % 2 = 0 THEN Smallest(attempts, mid) + Smallest(attempts, mid + 1)
        ELSE 2 * Smallest(attempts, mid + 1)

\* getModuleQuizStats(moduleId)
getModuleQuizStats(moduleId) ==
    LET found == ProgressWithModule(moduleId)
        allAttempts == ModuleAttempts(found, moduleId)
    IN  [ moduleId      |-> moduleId,
          totalAttempts |-> Len(allAttempts),
          uniqueUsers   |-> Cardinality(found),
          averageScore  |-> IF Len(allAttempts) > 0 THEN AverageScore(allAttempts) ELSE 0,
          passRate      |-> PassRate(allAttempts),
          twiceMedian   |-> TwiceMedian(allAttempts) ]

\* GET /stats/module/:moduleId.  The route has no middleware: the handler runs
\* whoever the caller is.
GetModuleStats(caller, moduleId) ==
    /\ loaded' = NoDoc
    /\ response' = [req |-> "stats", caller |-> caller, status |-> 200,
                    stats |-> getModuleQuizStats(moduleId)]
    /\ UNCHANGED <<users, now, ticks, router, quiz, progress, inflight, authVars>>

----------------------------------------------------------------------------
(* The clock *)

Tick ==
    /\ ticks < MaxTicks
    /\ \E d \in TickSteps : now' = now + d
    /\ ticks' = ticks + 1
    /\ loaded' = NoDoc
    /\ response' = Idle
    /\ UNCHANGED <<users, router, quiz, progress, inflight, authVars>>

----------------------------------------------------------------------------
(* routes/learning.js: POST /api/learning/complete *)

\* a variant without the duplicate check
AlreadyCompleted_Unchecked(user, moduleId) == FALSE

\* user.completedModules.includes(moduleId)
AlreadyCompleted(user, moduleId) == Includes(user.completedModules, moduleId)

CompleteModule(u, moduleId) ==
    IF moduleId = ""
    THEN /\ response' = [req |-> "complete", user |-> u, moduleId |-> moduleId,
                         status |-> 400, error |-> "moduleId is required"]
         /\ loaded' = NoDoc
         /\ UNCHANGED <<users, now, ticks, router, quiz, progress, inflight, authVars>>
    ELSE IF moduleId \notin DOMAIN MODULES
    THEN /\ response' = [req |-> "complete", user |-> u, moduleId |-> moduleId,
                         status |-> 400, error |-> "Invalid moduleId"]
         /\ loaded' = NoDoc
         /\ UNCHANGED <<users, now, ticks, router, quiz, progress, inflight, authVars>>
    ELSE LET module == MODULES[moduleId]
             user == users[u]
         IN  /\ loaded' = user
             /\ IF module.premium /\ ~user.isPremium
                THEN /\ response' = [req |-> "complete", user |-> u,
                                     moduleId |-> moduleId, status |-> 403,
                                     error |-> "Premium module requires subscription"]
                     /\ UNCHANGED <<users, now, ticks, router, quiz, progress, inflight, authVars>>
                ELSE IF AlreadyCompleted(user, moduleId)
                THEN /\ response' = [req |-> "complete", user |-> u,
                                     moduleId |-> moduleId, status |-> 400,
                                     error |-> "Module already completed"]
                     /\ UNCHANGED <<users, now, ticks, router, quiz, progress, inflight, authVars>>
                ELSE LET saved == updateStreak(
                                    completeModule(addXP(user, module.xp), moduleId),
                                    now)
                     IN  /\ users' = [users EXCEPT ![u] = saved]
                         /\ response' = [req |-> "complete", user |-> u,
                                         moduleId |-> moduleId, status |-> 200,
                                         success |-> TRUE,
                                         xpGained |-> module.xp,
                                         totalXP |-> saved.totalXP,
                                         level |-> saved.level,
                                         streak |-> saved.streak]
                         /\ UNCHANGED <<now, ticks, router, quiz, progress, inflight, authVars>>

----------------------------------------------------------------------------
(* POST /api/learning/complete as the steps between its awaits: findById     *)
(* gives the request a copy of the user, save() sends $set for the values    *)
(* the request changed on its copy and $push for the module it appended.     *)

\* user.save() of a copy loaded as asLoaded and changed to modified
PersistUser(stored, asLoaded, modified) ==
    [ f \in DOMAIN stored |->
        IF f = "completedModules"
        THEN stored.completedModules
               \o SubSeq(modified.completedModules,
                         Len(asLoaded.completedModules) + 1,
                         Len(modified.completedModules))
        ELSE SetIfModified(stored[f], asLoaded[f], modified[f]) ]

CompleteRefused(u, moduleId, status, message) ==
    [req |-> "complete", user |-> u, moduleId |-> moduleId, status |-> status,
     error |-> message]

\* the handler up to await user.save()
BeginComplete(r, u, moduleId) ==
    /\ inflight[r].pc = "idle"
    /\ inflight[r].runs < MaxRuns
    /\ UNCHANGED <<users, now, ticks, router, quiz, progress, authVars>>
    /\ LET started == [pc |-> "idle", runs |-> inflight[r].runs + 1]
           user == users[u]
       IN  IF moduleId = ""
           THEN /\ response' = CompleteRefused(u, moduleId, 400, "moduleId is required")
                /\ loaded' = NoDoc
                /\ inflight' = [inflight EXCEPT ![r] = started]
           ELSE IF moduleId \notin DOMAIN MODULES
           THEN /\ response' = CompleteRefused(u, moduleId, 400, "Invalid moduleId")
                /\ loaded' = NoDoc
                /\ inflight' = [inflight EXCEPT ![r] = started]
           ELSE IF MODULES[moduleId].premium /\ ~user.isPremium
           THEN /\ response' = CompleteRefused(u, moduleId, 403,
                                               "Premium module requires subscription")
                /\ loaded' = user
                /\ inflight' = [inflight EXCEPT ![r] = started]
           ELSE IF AlreadyCompleted(user, moduleId)
           THEN /\ response' = CompleteRefused(u, moduleId, 400,
                                               "Module already completed")
                /\ loaded' = user
                /\ inflight' = [inflight EXCEPT ![r] = started]
           ELSE /\ UNCHANGED response
                /\ loaded' = user
                /\ inflight' = [inflight EXCEPT ![r] =
                      [ pc |-> "saveUser", runs |-> inflight[r].runs + 1,
                        user |-> u, moduleId |-> moduleId, doc |-> user,
                        changed |-> updateStreak(
                                      completeModule(
                                        addXP(user, MODULES[moduleId].xp), moduleId),
                                      now) ]]

\* await user.save() and the response
SaveComplete(r) ==
    /\ inflight[r].pc = "saveUser"
    /\ loaded' = NoDoc
    /\ UNCHANGED <<now, ticks, router, quiz, progress, authVars>>
    /\ LET req == inflight[r] IN
       /\ users' = [users EXCEPT ![req.user] = PersistUser(@, req.doc, req.changed)]
       /\ inflight' = [inflight EXCEPT ![r] = Finished(r)]
       /\ response' = [req |-> "complete", user |-> req.user,
                       moduleId |-> req.moduleId, status |-> 200,
                       success |-> TRUE,
                       xpGained |-> MODULES[req.moduleId].xp,
                       totalXP |-> req.changed.totalXP,
                       level |-> req.changed.level,
                       streak |-> req.changed.streak]

----------------------------------------------------------------------------
(* The payment provider (Paystack), an external collaborator: what          *)
(* GET /transaction/verify/:reference answers, by reference.  A reference   *)
(* outside the table is unknown to the provider (status: false).            *)

Transactions ==
    [ r \in {"ref_m_u1", "ref_a_u1", "ref_failed", "ref_cheap", "ref_noplan",
             "ref_nouser", "ref_u2"} |->
        CASE r = "ref_m_u1"   -> [status |-> "success", amount |-> MonthlyKobo,
                                  userId |-> "u1", plan |-> "monthly"]
          [] r = "ref_a_u1"   -> [status |-> "success", amount |-> AnnualKobo,
                                  userId |-> "u1", plan |-> "annual"]
          [] r = "ref_failed" -> [status |-> "failed", amount |-> MonthlyKobo,
                                  userId |-> "u1", plan |-> "monthly"]
          [] r = "ref_cheap"  -> [status |-> "success", amount |-> 100,
                                  userId |-> "u1", plan |-> "annual"]
          [] r = "ref_noplan" -> [status |-> "success", amount |-> MonthlyKobo,
                                  userId |-> "u1", plan |-> Undefined]
          [] r = "ref_u2"     -> [status |-> "success", amount |-> MonthlyKobo,
                                  userId |-> "u2", plan |-> "monthly"]
          [] r = "ref_nouser" -> [status |-> "success", amount |-> MonthlyKobo,
                                  userId |-> Undefined, plan |-> "monthly"] ]

\* references a client asks to verify ("ref_unknown" is not in the table)
VerifyRefs == {"ref_unknown", "ref_failed", "ref_m_u1", "ref_a_u1", "ref_cheap",
               "ref_u2"}

\* expectedAmounts[plan]; Undefined for a plan that is not a key
expectedAmounts(plan) ==
    CASE plan = "monthly" -> MonthlyKobo
      [] plan = "annual"  -> AnnualKobo
      [] OTHER            -> 0

\* a variant without an expiry for a plan that is neither monthly nor annual
ExpiryFor_KnownPlansOnly(plan, t) ==
    IF plan = "monthly" THEN t + MonthHours
    ELSE IF plan = "annual" THEN t + YearHours
    ELSE NULL

\* setMonth(getMonth() + 1) for 'monthly', setFullYear(getFullYear() + 1) otherwise
ExpiryFor(plan, t) ==
    IF plan = "monthly" THEN t + MonthHours ELSE t + YearHours

HistoryEntry(reference, amount, status, plan, t) ==
    [reference |-> reference, amount |-> amount, date |-> t,
     status |-> status, plan |-> plan]

\* User.findByIdAndUpdate(userId, { isPremium: true, ... , $push: ... })
ActivatePremium(user, plan, storedPlan, reference, amount, t) ==
    [user EXCEPT
        !.isPremium = TRUE,
        !.subscriptionPlan = storedPlan,
        !.subscriptionExpiresAt = ExpiryFor(plan, t),
        !.subscriptionStartedAt = t,
        !.paystackReference = reference,
        !.lastPaymentAmount = amount \div KoboPerNaira,
        !.paymentHistory = Append(user.paymentHistory,
            HistoryEntry(reference, amount \div KoboPerNaira, "success", plan, t))]

----------------------------------------------------------------------------
(* routes/payments.js: GET /api/payments/verify/:reference *)

VerifyReply(u, reference, status, message) ==
    [req |-> "verify", user |-> u, status |-> status, message |-> message]

VerifyPayment(u, reference) ==
    /\ router = "payments"
    /\ loaded' = NoDoc
    /\ UNCHANGED <<now, ticks, router, quiz, progress, inflight, authVars>>
    /\ IF reference \notin DOMAIN Transactions
       THEN /\ response' = VerifyReply(u, reference, 400, "Payment verification failed")
            /\ UNCHANGED users
       ELSE LET transaction == Transactions[reference]
                plan == IF transaction.plan = Undefined THEN "monthly"
                        ELSE transaction.plan
            IN  IF transaction.status # "success"
                THEN /\ response' = VerifyReply(u, reference, 400,
                                                "Payment was not successful")
                     /\ UNCHANGED users
                ELSE IF transaction.userId # u
                THEN /\ response' = VerifyReply(u, reference, 400, "User mismatch")
                     /\ UNCHANGED users
                ELSE IF transaction.amount # expectedAmounts(plan)
                THEN /\ response' = VerifyReply(u, reference, 400,
                                                "Payment amount mismatch")
                     /\ UNCHANGED users
                ELSE /\ Len(users[u].paymentHistory) < MaxHistory
                     /\ users' = [users EXCEPT ![u] =
                            ActivatePremium(@, plan, plan, reference,
                                            transaction.amount, now)]
                     /\ response' = [req |-> "verify", user |-> u, status |-> 200,
                                     message |-> "Premium subscription activated",
                                     isPremium |-> users'[u].isPremium,
                                     subscriptionPlan |-> users'[u].subscriptionPlan,
                                     subscriptionExpiresAt |->
                                         users'[u].subscriptionExpiresAt]

----------------------------------------------------------------------------
(* routes/payments.js: GET /api/payments/subscription-status *)

\* a variant that resets the plan and keeps the flag
StatusDowngrade_PlanOnly(user, t) ==
    IF user.isPremium /\ user.subscriptionExpiresAt # NULL
       /\ t > user.subscriptionExpiresAt
    THEN [user EXCEPT !.subscriptionPlan = "none"]
    ELSE user

\* the read-time downgrade of the status handler (the document it saves)
StatusDowngrade(user, t) ==
    IF user.isPremium /\ user.subscriptionExpiresAt # NULL
       /\ t > user.subscriptionExpiresAt
    THEN [user EXCEPT !.isPremium = FALSE, !.subscriptionPlan = "none"]
    ELSE user

StatusDaysRemaining(user, t) ==
    IF user.isPremium /\ user.subscriptionExpiresAt # NULL
    THEN CeilDiv(user.subscriptionExpiresAt - t, DayHours)
    ELSE 0

SubscriptionStatus(u) ==
    LET user == StatusDowngrade(users[u], now) IN
    /\ router = "payments"
    /\ loaded' = users[u]
    /\ users' = [users EXCEPT ![u] = user]
    /\ response' = [req |-> "subscription-status", user |-> u, status |-> 200,
                    isPremium |-> user.isPremium,
                    subscriptionPlan |-> user.subscriptionPlan,
                    subscriptionExpiresAt |-> user.subscriptionExpiresAt,
                    daysRemaining |-> Max(0, StatusDaysRemaining(user, now))]
    /\ UNCHANGED <<now, ticks, router, quiz, progress, inflight, authVars>>

----------------------------------------------------------------------------
(* routes/payments.js: POST /api/payments/cancel-subscription *)

CancelUpdate(user, u, t) ==
    [user EXCEPT
        !.isPremium = FALSE,
        !.subscriptionPlan = "none",
        !.subscriptionExpiresAt = NULL,
        !.paymentHistory = Append(user.paymentHistory,
            [reference |-> "cancel_" \o u, date |-> t,
             status |-> "cancelled", amount |-> 0])]

CancelSubscription(u) ==
    /\ router = "payments"
    /\ Len(users[u].paymentHistory) < MaxHistory
    /\ users' = [users EXCEPT ![u] = CancelUpdate(@, u, now)]
    /\ loaded' = NoDoc
    /\ response' = [req |-> "cancel-subscription", user |-> u, status |-> 200,
                    isPremium |-> users'[u].isPremium,
                    subscriptionPlan |-> users'[u].subscriptionPlan]
    /\ UNCHANGED <<now, ticks, router, quiz, progress, inflight, authVars>>

----------------------------------------------------------------------------
(* routes/payments.js: POST /api/payments/webhook *)

SecretKey == "PAYSTACK_SECRET_KEY"

\* crypto.createHmac('sha512', key).update(JSON.stringify(body)).digest('hex')
Hmac(key, body) == <<"sha512", key, body>>


\* req.body of a webhook call: event.event, event.data.reference,
\* event.data.amount and event.data.metadata
WebhookBody(event, r) ==
    [event |-> event, reference |-> r, amount |-> Transactions[r].amount,
     userId |-> Transactions[r].userId, plan |-> Transactions[r].plan]

\* the webhook calls of the model: a paid monthly plan, an annual plan paid
\* with too small an amount, metadata without plan, metadata without userId,
\* a user without document, failed charges, and an event of another kind
WebhookBodies ==
    { WebhookBody("charge.success", "ref_m_u1"),
      WebhookBody("charge.success", "ref_cheap"),
      WebhookBody("charge.success", "ref_noplan"),
      WebhookBody("charge.success", "ref_nouser"),
      WebhookBody("charge.success", "ref_u2"),
      WebhookBody("charge.failed", "ref_failed"),
      WebhookBody("charge.failed", "ref_nouser"),
      WebhookBody("transfer.success", "ref_m_u1") }

\* the x-paystack-signature header: the provider's, a forger's, or none
SignaturesFor(body) == {Hmac(SecretKey, body), Hmac("not-the-key", body), << >>}

\* { subscriptionPlan: plan } with plan undefined: the update leaves the field
\* alone or sets it to null, depending on the mongoose version
StoredPlans(plan, old) == IF plan = Undefined THEN {old, NullPlan} ELSE {plan}

\* the answer to a webhook call, next to what the call was: whether its
\* x-paystack-signature header was the provider's HMAC of the payload
WebhookReply(body, signature, status, message) ==
    [req |-> "webhook", authentic |-> signature = Hmac(SecretKey, body),
     status |-> status, message |-> message]

\* a variant that only asks for a signature header to be present
SignatureAccepted_AnyHeader(body, signature) == signature # << >>

SignatureAccepted(body, signature) == Hmac(SecretKey, body) = signature

Webhook(body, signature) ==
    /\ router = "payments"
    /\ loaded' = NoDoc
    /\ UNCHANGED <<now, ticks, router, quiz, progress, inflight, authVars>>
    /\ IF ~SignatureAccepted(body, signature)
       THEN /\ response' = WebhookReply(body, signature, 400, "Invalid signature")
            /\ UNCHANGED users
       ELSE IF body.event = "charge.success"
       THEN IF body.userId = Undefined
            THEN /\ response' = WebhookReply(body, signature, 400, "Missing userId")
                 /\ UNCHANGED users
            ELSE IF body.userId \notin Users
            THEN /\ response' = WebhookReply(body, signature, 200, "success")
                 /\ UNCHANGED users
            ELSE /\ Len(users[body.userId].paymentHistory) < MaxHistory
                 /\ \E storedPlan \in StoredPlans(body.plan,
                                        users[body.userId].subscriptionPlan) :
                        users' = [users EXCEPT ![body.userId] =
                            ActivatePremium(@, body.plan, storedPlan,
                                            body.reference, body.amount, now)]
                 /\ response' = WebhookReply(body, signature, 200, "success")
       ELSE IF body.event = "charge.failed" /\ body.userId \in Users
       THEN /\ Len(users[body.userId].paymentHistory) < MaxHistory
            /\ users' = [users EXCEPT ![body.userId].paymentHistory =
                   Append(@, HistoryEntry(body.reference,
                                          body.amount \div KoboPerNaira,
                                          "failed", body.plan, now))]
            /\ response' = WebhookReply(body, signature, 200, "success")
       ELSE /\ response' = WebhookReply(body, signature, 200, "success")
            /\ UNCHANGED users

----------------------------------------------------------------------------
(* routes/api/payments.js (the file payments.js of the api router): the    *)
(* same four endpoints in their earlier form, without payment history      *)

ActivatePremiumApi(user, plan, reference, amount, t) ==
    [user EXCEPT
        !.isPremium = TRUE,
        !.subscriptionPlan = plan,
        !.subscriptionExpiresAt = ExpiryFor(plan, t),
        !.subscriptionStartedAt = t,
        !.paystackReference = reference,
        !.lastPaymentAmount = amount \div KoboPerNaira]

\* GET /api/verify-payment/:reference
VerifyPaymentApi(u, reference) ==
    /\ router = "api"
    /\ loaded' = NoDoc
    /\ UNCHANGED <<now, ticks, router, quiz, progress, inflight, authVars>>
    /\ IF reference \notin DOMAIN Transactions
       THEN /\ response' = VerifyReply(u, reference, 400, "Payment verification failed")
            /\ UNCHANGED users
       ELSE LET transaction == Transactions[reference]
                plan == IF transaction.plan = Undefined THEN "monthly"
                        ELSE transaction.plan
            IN  IF transaction.status # "success"
                THEN /\ response' = VerifyReply(u, reference, 400,
                                                "Payment was not successful")
                     /\ UNCHANGED users
                ELSE IF transaction.amount # expectedAmounts(plan)
                THEN /\ response' = VerifyReply(u, reference, 400,
                                                "Payment amount mismatch")
                     /\ UNCHANGED users
                ELSE IF transaction.userId # u
                THEN /\ response' = VerifyReply(u, reference, 400, "User mismatch")
                     /\ UNCHANGED users
                ELSE /\ users' = [users EXCEPT ![u] =
                            ActivatePremiumApi(@, plan, reference,
                                               transaction.amount, now)]
                     /\ response' = [req |-> "verify", user |-> u, status |-> 200,
                                     message |-> "Premium subscription activated",
                                     isPremium |-> users'[u].isPremium,
                                     subscriptionPlan |-> users'[u].subscriptionPlan,
                                     subscriptionExpiresAt |->
                                         users'[u].subscriptionExpiresAt]

\* POST /api/paystack-webhook
PaystackWebhook(body, signature) ==
    /\ router = "api"
    /\ loaded' = NoDoc
    /\ UNCHANGED <<now, ticks, router, quiz, progress, inflight, authVars>>
    /\ IF ~SignatureAccepted(body, signature)
       THEN /\ response' = WebhookReply(body, signature, 400, "Invalid signature")
            /\ UNCHANGED users
       ELSE IF body.event = "charge.success"
       THEN LET plan == IF body.plan = Undefined THEN "monthly" ELSE body.plan IN
            IF body.userId = Undefined
            THEN /\ response' = WebhookReply(body, signature, 400, "Missing userId")
                 /\ UNCHANGED users
            ELSE IF body.userId \notin Users
            THEN /\ response' = WebhookReply(body, signature, 200, "success")
                 /\ UNCHANGED users
            ELSE /\ users' = [users EXCEPT ![body.userId] =
                        ActivatePremiumApi(@, plan, body.reference,
                                           body.amount, now)]
                 /\ response' = WebhookReply(body, signature, 200, "success")
       ELSE /\ response' = WebhookReply(body, signature, 200, "success")
            /\ UNCHANGED users

\* GET /api/subscription-status: the read-time downgrade it saves
StatusDowngradeApi(user, t) ==
    IF user.isPremium /\ user.subscriptionExpiresAt # NULL
       /\ t > user.subscriptionExpiresAt
    THEN [user EXCEPT !.isPremium = FALSE]
    ELSE user

SubscriptionStatusApi(u) ==
    LET user == StatusDowngradeApi(users[u], now) IN
    /\ router = "api"
    /\ loaded' = users[u]
    /\ users' = [users EXCEPT ![u] = user]
    /\ response' = [req |-> "subscription-status", user |-> u, status |-> 200,
                    isPremium |-> user.isPremium,
                    subscriptionPlan |-> user.subscriptionPlan,
                    subscriptionExpiresAt |-> user.subscriptionExpiresAt,
                    daysRemaining |-> Max(0, StatusDaysRemaining(user, now))]
    /\ UNCHANGED <<now, ticks, router, quiz, progress, inflight, authVars>>

\* POST /api/cancel-subscription
CancelUpdateApi(user) ==
    [user EXCEPT
        !.isPremium = FALSE,
        !.subscriptionPlan = NullPlan,
        !.subscriptionExpiresAt = NULL]

CancelSubscriptionApi(u) ==
    /\ router = "api"
    /\ users' = [users EXCEPT ![u] = CancelUpdateApi(@)]
    /\ loaded' = NoDoc
    /\ response' = [req |-> "cancel-subscription", user |-> u, status |-> 200,
                    isPremium |-> users'[u].isPremium]
    /\ UNCHANGED <<now, ticks, router, quiz, progress, inflight, authVars>>

----------------------------------------------------------------------------
(* models/User.js: getSubscriptionDetails(), read on the stored document *)

GetSubscriptionDetails(u) ==
    /\ loaded' = users[u]
    /\ response' = [req |-> "subscription-details", user |-> u,
                    details |-> getSubscriptionDetails(users[u], now)]
    /\ UNCHANGED <<users, now, ticks, router, quiz, progress, inflight, authVars>>

----------------------------------------------------------------------------
QuizIdle == << >>

\* routes/payments.js (mounted at /api/payments) and routes/api/payments.js
Routers == {"payments", "api"}

InitWith(routers) ==
    /\ users = [u \in Users |-> DefaultUser]
    /\ now = 0
    /\ ticks = 0
    /\ loaded = NoDoc
    /\ response = Idle
    /\ router \in routers
    /\ quiz = QuizIdle
    /\ progress = [u \in Users |-> NoDoc]
    /\ inflight = NoRequests
    /\ AuthIdle

Init == InitWith(Routers)

\* The subscription state machine: payments, status checks, cancellation
Next ==
    \/ Tick
    \/ \E u \in Users : GetSubscriptionDetails(u)
    \/ \E u \in Users, r \in VerifyRefs : VerifyPayment(u, r)
    \/ \E b \in WebhookBodies : \E sig \in SignaturesFor(b) : Webhook(b, sig)
    \/ \E u \in Users : SubscriptionStatus(u)
    \/ \E u \in Users : CancelSubscription(u)
    \/ \E u \in Users, r \in VerifyRefs : VerifyPaymentApi(u, r)
    \/ \E b \in WebhookBodies : \E sig \in SignaturesFor(b) : PaystackWebhook(b, sig)
    \/ \E u \in Users : SubscriptionStatusApi(u)
    \/ \E u \in Users : CancelSubscriptionApi(u)

Spec == Init /\ [][Next]_vars

\* Learning: module completion by a user whose subscription comes and goes
LearnRefs == {"ref_m_u1"}

NextLearn ==
    \/ Tick
    \/ \E u \in Users, m \in ModuleInputs : CompleteModule(u, m)
    \/ \E u \in Users, r \in LearnRefs : VerifyPayment(u, r)
    \/ \E u \in Users : SubscriptionStatus(u)
    \/ \E u \in Users : CancelSubscription(u)

SpecLearn == InitWith({"payments"}) /\ [][NextLearn]_vars

----------------------------------------------------------------------------
(* Subscription state: properties of Spec *)

Expired(user, t) ==
    user.subscriptionExpiresAt # NULL /\ user.subscriptionExpiresAt < t

\* C4: isSubscriptionActive is true exactly when isPremium is true, the expiry
\* is set and the clock is strictly before it; it is false for a stale
\* isPremium flag, and reading it downgrades nothing.
C4_ActiveIffPremiumAndUnexpired ==
    response.req = "subscription-details" =>
        /\ response.details.isActive =
              ( /\ loaded.isPremium
                /\ loaded.subscriptionExpiresAt # NULL
                /\ now < loaded.subscriptionExpiresAt )
        /\ users[response.user] = loaded

C4_Witness_StaleFlagInactive ==
    /\ response.req = "subscription-details"
    /\ loaded.isPremium
    /\ Expired(loaded, now)
    /\ users[response.user].isPremium
    /\ response.details.isActive = FALSE

\* C5: a subscription-status request of a user stored as premium whose expiry
\* is earlier than the clock answers isPremium false and daysRemaining 0, and
\* the stored isPremium is false afterwards.
C5_StatusDowngradesExpired ==
    ( /\ response.req = "subscription-status"
      /\ loaded.isPremium
      /\ Expired(loaded, now) ) =>
        /\ response.isPremium = FALSE
        /\ response.daysRemaining = 0
        /\ users[response.user].isPremium = FALSE

C5_Witness_ExpiredStatus ==
    /\ response.req = "subscription-status"
    /\ loaded.isPremium
    /\ Expired(loaded, now)
    /\ response.isPremium = FALSE
    /\ users[response.user].isPremium = FALSE

\* C7: processing a payment reference that already activated the user (by
\* verify or by the charge.success webhook, in either order) leaves
\* subscriptionExpiresAt as the first activation set it.
Processed(user, reference) ==
    \/ user.paystackReference = reference
    \/ \E i \in 1..Len(user.paymentHistory) :
          /\ user.paymentHistory[i].reference = reference
          /\ user.paymentHistory[i].status = "success"

ProcessingStep(u, reference) ==
    \/ VerifyPayment(u, reference)
    \/ VerifyPaymentApi(u, reference)
    \/ \E b \in WebhookBodies : \E sig \in SignaturesFor(b) :
          /\ b.reference = reference
          /\ b.userId = u
          /\ b.event = "charge.success"
          /\ (Webhook(b, sig) \/ PaystackWebhook(b, sig))

C7_ReplayKeepsExpiry ==
    [][ \A u \in Users, r \in DOMAIN Transactions :
          (Processed(users[u], r) /\ ProcessingStep(u, r)) =>
              users'[u].subscriptionExpiresAt = users[u].subscriptionExpiresAt
      ]_vars

\* C8: a webhook whose x-paystack-signature is not the HMAC-SHA512 of the
\* payload is answered with 400 and changes no User document, whatever its
\* event.
C8_BadSignatureNeverProcessed ==
    [][ (response'.req = "webhook" /\ ~response'.authentic) =>
            (response'.status = 400 /\ users' = users)
      ]_vars

C8_Witness_InvalidSignature ==
    /\ response.req = "webhook"
    /\ ~response.authentic
    /\ response.status = 400
    /\ response.message = "Invalid signature"

\* C9: in every reachable state a user with isPremium true has a non-null
\* subscriptionExpiresAt.
C9_PremiumHasExpiry ==
    \A u \in Users : users[u].isPremium => users[u].subscriptionExpiresAt # NULL

C9_Witness_PremiumAgainAfterCancel ==
    \E u \in Users :
        /\ users[u].isPremium
        /\ users[u].subscriptionExpiresAt # NULL
        /\ \E i \in 1..Len(users[u].paymentHistory) :
              users[u].paymentHistory[i].status = "cancelled"

\* C10: the status path's read-time downgrade is checkAndDowngradePremium: a
\* premium user whose expiry has passed is stored with isPremium false, plan
\* 'none' and subscriptionExpiresAt null; any other user is left unchanged.
C10_StatusAppliesCheckAndDowngrade ==
    response.req = "subscription-status" =>
        users[response.user] = checkAndDowngradePremium(loaded, now)

----------------------------------------------------------------------------
(* Module completion: properties of SpecLearn *)

CompletionOfKnownModule ==
    /\ response.req = "complete"
    /\ response.moduleId \in DOMAIN MODULES

LearningUnchanged(u) ==
    /\ users[u].totalXP = loaded.totalXP
    /\ users[u].level = loaded.level
    /\ users[u].streak = loaded.streak
    /\ users[u].completedModules = loaded.completedModules

C6_ExpiredUserRefusedPremiumModule ==
    ( /\ CompletionOfKnownModule
      /\ MODULES[response.moduleId].premium
      /\ Expired(loaded, now) ) =>
        /\ response.status # 200
        /\ users[response.user].totalXP = loaded.totalXP

----------------------------------------------------------------------------
(* Grading as a function of the question bank and the submission *)

\* the banks of the model: one or two questions of module "phishing-basics"
\* with any correct option and points, next to a question of another module
PointChoices == {1, 7, 10}
OptionChoices == {0, 3}

BankQuestions(questionId) ==
    { Question(questionId, "phishing-basics", c, p) :
        c \in OptionChoices, p \in PointChoices }

OtherModuleQuestion == Question("q9", "job-scam", 0, 10)

Banks ==
    { <<a, OtherModuleQuestion>> : a \in BankQuestions("q1") }
    \cup { <<a, OtherModuleQuestion, b>> :
             a \in BankQuestions("q1"), b \in BankQuestions("q2") }

\* submissions that pass validateQuiz: 1..MaxAnswers answers, options 0..3
AnswerChoices == [questionId : {"q1", "q2", "q9"}, selectedOption : OptionChoices]

AnswerLists == UNION { [1..n -> AnswerChoices] : n \in 1..MaxAnswers }

ScoreModules == {"phishing-basics", "no-quiz-module"}

InitScore ==
    /\ users = [u \in Users |-> DefaultUser]
    /\ now = 0
    /\ ticks = 0
    /\ loaded = NoDoc
    /\ response = Idle
    /\ router = "payments"
    /\ quiz \in Banks
    /\ progress = [u \in Users |-> NoDoc]
    /\ inflight = NoRequests
    /\ AuthIdle

NextScore == \E m \in ScoreModules, a \in AnswerLists : ScoreQuiz(m, a)

SpecScore == InitScore /\ [][NextScore]_vars

\* the questions of a module, and the answers of a submission that name one
BankOf(moduleId) ==
    {quiz[i] : i \in {j \in 1..Len(quiz) : quiz[j].moduleId = moduleId}}

MatchedAnswers(moduleId, userAnswers) ==
    {i \in 1..Len(userAnswers) :
        \E q \in BankOf(moduleId) : q.questionId = userAnswers[i].questionId}

QuestionFor(moduleId, answer) ==
    CHOOSE q \in BankOf(moduleId) : q.questionId = answer.questionId

RECURSIVE SumPoints(_, _, _)
SumPoints(moduleId, userAnswers, indices) ==
    IF indices = {} THEN 0
    ELSE LET i == CHOOSE j \in indices : TRUE
         IN  QuestionFor(moduleId, userAnswers[i]).points
             + SumPoints(moduleId, userAnswers, indices \ {i})

CorrectAnswers(moduleId, userAnswers) ==
    {i \in MatchedAnswers(moduleId, userAnswers) :
        QuestionFor(moduleId, userAnswers[i]).correctAnswer
            = userAnswers[i].selectedOption}

\* C1: when at least one answer names a question of the bank, totalPoints is
\* the sum of the points of the matched answers, score the sum of the points of
\* the matched answers with the correct option, percentage the nearest integer
\* to score / totalPoints * 100 (halves up), and passed is percentage >= 70.
C1_ScoreQuizTotals ==
    ( /\ response.req = "scoreQuiz"
      /\ MatchedAnswers(response.moduleId, response.answers) # {} ) =>
        LET r == response.result
            m == response.moduleId
            a == response.answers
        IN  /\ r.error = "none"
            /\ r.totalPoints = SumPoints(m, a, MatchedAnswers(m, a))
            /\ r.score = SumPoints(m, a, CorrectAnswers(m, a))
            /\ 2 * r.totalPoints * r.percentage <= 200 * r.score + r.totalPoints
            /\ 200 * r.score + r.totalPoints < 2 * r.totalPoints * (r.percentage + 1)
            /\ r.passed = (r.percentage >= 70)

\* two questions worth 10 points each, one answered right and one wrong, next
\* to an answer with an unknown questionId
C1_Witness_HalfRight ==
    /\ response.req = "scoreQuiz"
    /\ Len(response.answers) = 3
    /\ Cardinality(MatchedAnswers(response.moduleId, response.answers)) = 2
    /\ response.result.score = 10
    /\ response.result.totalPoints = 20
    /\ response.result.percentage = 50
    /\ response.result.passed = FALSE
    /\ response.result.xpEarned = 0

----------------------------------------------------------------------------
(* XP and level of both ledgers: the User document and UserProgress *)

LedgerBank ==
    << Question("q1", "phishing-basics", 0, 10),
       Question("q2", "phishing-basics", 3, 10),
       OtherModuleQuestion >>

Answer(questionId, selectedOption) ==
    [questionId |-> questionId, selectedOption |-> selectedOption]

\* all right, half right, and no answer that names a question of the module
LedgerAnswers ==
    { <<Answer("q1", 0), Answer("q2", 3)>>,
      <<Answer("q1", 0), Answer("q2", 0)>>,
      <<Answer("q9", 0)>> }

LedgerModules == {"phishing-basics", "job-scam", "no-quiz-module"}

SubmitTimes == {30}

\* an earlier passed attempt on phishing-basics
SeedAttempt ==
    QuizAttempt("phishing-basics",
                scoreQuiz(LedgerBank, "phishing-basics",
                          <<Answer("q1", 0), Answer("q2", 3)>>),
                30, 0)

\* the UserProgress documents a behaviour may start with: none, a fresh one,
\* and one with a recorded attempt, 15 XP below the second level
LedgerSeeds ==
    { NoDoc,
      ProgressDoc(0, << >>, DefaultStatistics, 0),
      ProgressDoc(XpPerLevel - QuizPassXP,
                  << [ moduleId     |-> "phishing-basics",
                       completedAt  |-> 0,
                       xpEarned     |-> 0,
                       quizAttempts |-> <<SeedAttempt>> ] >>,
                  [ totalQuizzesAttempted |-> 1,
                    totalQuizzesPass      |-> 1,
                    averageQuizScore      |-> 100,
                    lastQuizCompletedAt   |-> 0 ],
                  0) }

InitLedger ==
    /\ users = [u \in Users |-> DefaultUser]
    /\ now = 0
    /\ ticks = 0
    /\ loaded = NoDoc
    /\ response = Idle
    /\ router = "payments"
    /\ quiz = LedgerBank
    /\ progress \in [Users -> LedgerSeeds]
    /\ inflight = NoRequests
    /\ AuthIdle

NextLedger ==
    \/ Tick
    \/ \E u \in Users, m \in ModuleInputs : CompleteModule(u, m)
    \/ \E u \in Users, m \in LedgerModules, a \in LedgerAnswers, s \in SubmitTimes :
           SubmitQuiz(u, m, a, s)

SpecLedger == InitLedger /\ [][NextLedger]_vars

\* C3: in every persisted state the level of a UserProgress document and of a
\* User document is floor(totalXP / 500) + 1.
C3_LevelFollowsTotalXP ==
    \A u \in Users :
        /\ users[u].level = users[u].totalXP \div 500 + 1
        /\ progress[u] # NoDoc =>
               progress[u].level = progress[u].totalXP \div 500 + 1

\* a passed quiz has just taken a UserProgress document across 500 XP, and
\* the user has completed a module
C3_Witness_SecondLevel ==
    \E u \in Users :
        /\ response.req = "submit"
        /\ response.status = 200
        /\ response.passed
        /\ progress[u] # NoDoc
        /\ progress[u].totalXP = 500
        /\ progress[u].level = 2
        /\ users[u].totalXP = 10
        /\ users[u].level = 1

\* C11: when every submitted answer names a questionId outside the module's
\* non-empty bank, scoreQuiz returns totalPoints 0 and the percentage 0 (a
\* defined number, not NaN), with passed false and xpEarned 0.
C11_UnmatchedSubmissionScoresZero ==
    ( /\ response.req = "scoreQuiz"
      /\ BankOf(response.moduleId) # {}
      /\ MatchedAnswers(response.moduleId, response.answers) = {} ) =>
        /\ response.result.error = "none"
        /\ response.result.totalPoints = 0
        /\ response.result.percentage # NaN
        /\ response.result.percentage = 0
        /\ response.result.passed = FALSE
        /\ response.result.xpEarned = 0

----------------------------------------------------------------------------
(* Quiz submissions of one user that interleave *)

RaceAnswers ==
    { <<Answer("q1", 0), Answer("q2", 3)>>,
      <<Answer("q1", 0), Answer("q2", 0)>> }

RaceModules == {"phishing-basics", "no-quiz-module"}

NextRace ==
    \/ \E r \in Requests, u \in Users, m \in RaceModules, a \in RaceAnswers,
          t \in SubmitTimes : BeginSubmit(r, u, m, a, t)
    \/ \E r \in Requests : SaveSubmission(r)
    \/ \E r \in Requests : AwardFind(r)
    \/ \E r \in Requests : AwardSave(r)

SpecRace == InitLedger /\ [][NextRace]_vars

\* C12: no persisted totalXP of a user is smaller than an earlier persisted
\* totalXP of that user, nor negative, also when submissions interleave.
C12_TotalXPNeverDecreases ==
    [][ \A u \in Users :
          progress[u] # NoDoc =>
              /\ progress'[u] # NoDoc
              /\ progress'[u].totalXP >= progress[u].totalXP
              /\ progress'[u].totalXP >= 0
      ]_vars

----------------------------------------------------------------------------
(* The streak as a function of lastActivity, the clock and the stored streak *)

\* hours between the last activity and the update
StreakGaps == {0, 1, 23, 24, 25, 47, 48, 49, 100}

StreakStarts == {0, 5}

\* a user without activity (streak 0), or with a last activity and a streak
StreakUsers ==
    {DefaultUser}
    \cup { [DefaultUser EXCEPT !.lastActivity = t, !.streak = k] :
             t \in StreakStarts, k \in 1..MaxStreak }

InitStreak ==
    /\ users \in [Users -> StreakUsers]
    /\ \E d \in StreakGaps :
          now = d + (IF users["u1"].lastActivity = NULL THEN 0
                     ELSE users["u1"].lastActivity)
    /\ ticks = 0
    /\ loaded = NoDoc
    /\ response = Idle
    /\ router = "payments"
    /\ quiz = QuizIdle
    /\ progress = [u \in Users |-> NoDoc]
    /\ inflight = NoRequests
    /\ AuthIdle

NextStreak == \E u \in Users : UpdateStreak(u)

SpecStreak == InitStreak /\ [][NextStreak]_vars

\* C13: with d = floor((now - lastActivity) / 24h): no prior activity gives
\* streak 1; d = 0 leaves streak and lastActivity unchanged; d = 1 gives
\* streak + 1; d > 1 gives streak 1; lastActivity becomes now on every branch
\* but d = 0; nothing else of the user changes.
C13_UpdateStreakByElapsedDays ==
    response.req = "updateStreak" =>
        LET before == loaded
            after == users[response.user]
            d == (now - before.lastActivity) \div 24
        IN  /\ before.lastActivity = NULL =>
                  (after.streak = 1 /\ after.lastActivity = now)
            /\ (before.lastActivity # NULL /\ d = 0) =>
                  (after.streak = before.streak
                   /\ after.lastActivity = before.lastActivity)
            /\ (before.lastActivity # NULL /\ d = 1) =>
                  (after.streak = before.streak + 1 /\ after.lastActivity = now)
            /\ (before.lastActivity # NULL /\ d > 1) =>
                  (after.streak = 1 /\ after.lastActivity = now)
            /\ response.streak = after.streak
            /\ after = [before EXCEPT !.streak = after.streak,
                                      !.lastActivity = after.lastActivity]

\* an update 23 hours after the last activity changed nothing
C13_Witness_SameDayUnchanged ==
    /\ response.req = "updateStreak"
    /\ loaded.lastActivity # NULL
    /\ now = loaded.lastActivity + 23
    /\ users[response.user] = loaded
    /\ loaded.streak = 2

UpdateAfter25Hours ==
    /\ response.req = "updateStreak"
    /\ loaded.lastActivity # NULL
    /\ loaded.streak >= 1
    /\ now = loaded.lastActivity + 25

\* C14 (as stated): an update 25 hours after the recorded activity resets the
\* streak to 1.
C14_ResetAfter25Hours ==
    UpdateAfter25Hours => users[response.user].streak = 1

\* C14 (amended): an update 25 hours after the recorded activity is one
\* elapsed day, so the streak becomes s + 1 and lastActivity the time of the
\* update; the streak is reset to 1 from 48 hours on.
C14_IncrementAfter25Hours ==
    /\ UpdateAfter25Hours =>
          /\ users[response.user].streak = loaded.streak + 1
          /\ users[response.user].lastActivity = now
    /\ ( /\ response.req = "updateStreak"
         /\ loaded.lastActivity # NULL
         /\ now >= loaded.lastActivity + 48 ) =>
          users[response.user].streak = 1

C14_Witness_ThirdDayAt25Hours ==
    /\ UpdateAfter25Hours
    /\ loaded.streak = 2
    /\ users[response.user].streak = 3

----------------------------------------------------------------------------
(* The leaderboard over user populations *)

BoardNow == 800

\* totalXP and lastActivity of a ranked user: never active, active within the
\* month, active within the week
BoardUsers ==
    { [DefaultUser EXCEPT !.totalXP = x, !.level = x \div XpPerLevel + 1,
                          !.lastActivity = t,
                          !.streak = IF t = NULL THEN 0 ELSE 1] :
        x \in {0, 510}, t \in {NULL, 500, 790} }

\* a population larger than the cap: all active, no two with the same totalXP
Crowd ==
    [ u \in 1..CrowdSize |->
        [DefaultUser EXCEPT !.totalXP = 5 * u, !.level = (5 * u) \div XpPerLevel + 1,
                            !.lastActivity = 790, !.streak = 1] ]

TimeframeInputs == {Undefined, "week", "month", "year"}

LimitInputs ==
    { Absent, <<"2">>, <<"1", "0", "0">>, <<"2", "0", "0">>, <<"0">>,
      <<"-", "2">>, <<"-", "1", "5", "0">>, <<"a", "b", "c">>, <<"3", "x">> }

InitBoard ==
    /\ users \in [1..MaxBoardUsers -> BoardUsers] \cup {Crowd}
    /\ now = BoardNow
    /\ ticks = 0
    /\ loaded = NoDoc
    /\ response = Idle
    /\ router = "payments"
    /\ quiz = QuizIdle
    /\ progress = [u \in Users |-> NoDoc]
    /\ inflight = NoRequests
    /\ AuthIdle

NextBoard ==
    \E timeframe \in TimeframeInputs, limit \in LimitInputs :
        Leaderboard(timeframe, limit)

SpecBoard == InitBoard /\ [][NextBoard]_vars

\* C15: the returned entries have non-increasing totalXP by rank, and the
\* ranks of the N entries are 1..N in order, ties included.
C15_LeaderboardOrderedAndRanked ==
    response.req = "leaderboard" =>
        LET e == response.leaderboard IN
        /\ \A i \in 1..Len(e) : e[i].rank = i
        /\ \A i \in 1..Len(e) : \A j \in 1..Len(e) :
              i < j => e[i].totalXP >= e[j].totalXP
        /\ \A i \in 1..Len(e) : e[i].totalXP = users[e[i].name].totalXP
        /\ \A i \in 1..Len(e) : \A j \in 1..Len(e) :
              i # j => e[i].name # e[j].name

\* two users with the same totalXP at ranks 2 and 3, below a user with more
C15_Witness_TieGetsDistinctRanks ==
    /\ response.req = "leaderboard"
    /\ Len(response.leaderboard) = 3
    /\ response.leaderboard[1].totalXP > response.leaderboard[2].totalXP
    /\ response.leaderboard[2].totalXP = response.leaderboard[3].totalXP
    /\ response.leaderboard[2].rank = 2
    /\ response.leaderboard[3].rank = 3

\* C16: the leaderboard never returns more than 100 entries, whatever the
\* limit parameter, and at most 50 when limit is absent.
C16_LeaderboardAtMostCap ==
    response.req = "leaderboard" =>
        /\ Len(response.leaderboard) <= 100
        /\ response.limit = Absent => Len(response.leaderboard) <= 50

----------------------------------------------------------------------------
(* Quiz submissions and the UserProgress record: properties of SpecLedger *)

\* C17: a quiz submission of a user without UserProgress record fails with a
\* not-found error ('User progress not found' when the module has a quiz) and
\* no UserProgress record is created or modified: no attempt, no XP.
C17_SubmitWithoutProgressFails ==
    [][ ( /\ response'.req = "submit"
          /\ progress[response'.user] = NoDoc ) =>
            /\ response'.status = 500
            /\ response'.error \in {"User progress not found", "Quiz not found"}
            /\ BankOf(response'.moduleId) # {} =>
                   response'.error = "User progress not found"
            /\ progress' = progress
      ]_vars

C17_Witness_ProgressNotFound ==
    /\ response.req = "submit"
    /\ response.status = 500
    /\ response.error = "User progress not found"
    /\ progress[response.user] = NoDoc

\* C18: after a user's first module completion or quiz submission a
\* UserProgress record of that user exists.
C18_ProgressCreatedOnFirstAction ==
    \A u \in Users :
        ( \/ users[u].completedModules # << >>
          \/ ( /\ response.req = "submit"
               /\ response.user = u
               /\ BankOf(response.moduleId) # {} ) ) =>
            progress[u] # NoDoc

\* C19: for a user with a UserProgress record, a submission that passes adds
\* exactly 15 to totalXP, whatever the module, and a submission that fails
\* leaves totalXP and level unchanged.
C19_PassAddsFifteen ==
    [][ \A u \in Users, m \in LedgerModules, a \in LedgerAnswers, t \in SubmitTimes :
          ( /\ progress[u] # NoDoc
            /\ scoreQuiz(quiz, m, a).error = "none"
            /\ SubmitQuiz(u, m, a, t) ) =>
              IF scoreQuiz(quiz, m, a).passed
              THEN /\ progress'[u].totalXP = progress[u].totalXP + 15
                   /\ progress'[u].level = progress'[u].totalXP \div 500 + 1
              ELSE /\ progress'[u].totalXP = progress[u].totalXP
                   /\ progress'[u].level = progress[u].level
      ]_vars

----------------------------------------------------------------------------
(* What GET /api/quizzes/:moduleId shows of a question bank *)

\* questions that differ in what is hidden (correctAnswer and the three
\* explanation fields) and in what is shown (points)
ViewQuestions(questionId) ==
    { [Question(questionId, "phishing-basics", c, p) EXCEPT
          !.explanation = e, !.correctExplanation = ce,
          !.incorrectExplanations = ie] :
        c \in OptionChoices, p \in {1, 10}, e \in {"explained", "explained-2"},
        ce \in {"why-right", "why-right-2"},
        ie \in { << >>, << [optionIndex |-> 0, explanation |-> "why-not-0"] >> } }

ViewBanks ==
    { <<a>> : a \in ViewQuestions("q1") }
    \cup { <<a, b>> : a \in ViewQuestions("q1"), b \in ViewQuestions("q2") }

InitView ==
    /\ users = [u \in Users |-> DefaultUser]
    /\ now = 0
    /\ ticks = 0
    /\ loaded = NoDoc
    /\ response = Idle
    /\ router = "payments"
    /\ quiz \in ViewBanks
    /\ progress = [u \in Users |-> NoDoc]
    /\ inflight = NoRequests
    /\ AuthIdle

NextView == \E m \in ScoreModules : GetQuiz(m)

SpecView == InitView /\ [][NextView]_vars

\* two banks with the same questions but for the hidden fields
SameButHidden(bankA, bankB) ==
    /\ Len(bankA) = Len(bankB)
    /\ \A i \in 1..Len(bankA) :
          \A f \in DOMAIN bankA[i] \ HiddenFields : bankA[i][f] = bankB[i][f]

\* what the route answers with for a bank
QuizView(bank, moduleId) ==
    LET questions == getQuizQuestions(bank, moduleId)
    IN  [i \in 1..Len(questions) |-> SafeQuestion(questions[i])]

\* C20: for two banks that differ only in correctAnswer, explanation,
\* correctExplanation or incorrectExplanations, GET /quizzes/:moduleId returns
\* the same questions, and so does getQuizQuestions.
C20_QuizViewIgnoresHiddenFields ==
    (response.req = "quiz" /\ response.status = 200) =>
        \A other \in ViewBanks :
            SameButHidden(quiz, other) =>
                /\ response.questions = QuizView(other, response.moduleId)
                /\ getQuizQuestions(quiz, response.moduleId)
                     = getQuizQuestions(other, response.moduleId)

\* a bank of two questions is shown, and there is a bank with other answers
\* that is shown the same
C20_Witness_TwoQuestionsShown ==
    /\ response.req = "quiz"
    /\ response.status = 200
    /\ Len(response.questions) = 2
    /\ \E other \in ViewBanks :
          /\ SameButHidden(quiz, other)
          /\ other[1].correctAnswer # quiz[1].correctAnswer
          /\ other[2].correctExplanation # quiz[2].correctExplanation

----------------------------------------------------------------------------
(* Sign-up, password reset and the contact form: properties of SpecAuth *)

Names == {"Ada"}

\* the users collection before the first request: empty, or one user who
\* signed up earlier
SignedUp ==
    [f \in SchemaPaths |->
        IF f = "passwordHash" THEN BcryptHash("password-1")
        ELSE NewUser("Ada", "a@x.io")[f]]

InitAuthWith(budget) ==
    /\ users = [u \in Users |-> DefaultUser]
    /\ now = 0
    /\ ticks = 0
    /\ loaded = NoDoc
    /\ response = Idle
    /\ router = "payments"
    /\ quiz = QuizIdle
    /\ progress = [u \in Users |-> NoDoc]
    /\ inflight = NoRequests
    /\ accounts \in { << >>, <<SignedUp>> }
    /\ resetAttempts = [e \in Emails |-> << >>]
    /\ contacts = << >>
    /\ strictQuery \in BOOLEAN
    /\ history = [NoHistory EXCEPT !.budget = budget]

InitAuth == InitAuthWith(MaxAuthRequests)

\* the tokens a client can present: the ones issued so far, and one never issued
TokenInputs == 0..Len(history.tokens)

NextAuth ==
    \/ \E n \in Names, e \in EmailInputs, p \in Passwords, d \in BOOLEAN :
           Signup(n, e, p, d)
    \/ \E e \in EmailInputs, d \in BOOLEAN : ForgotPassword(e, d)
    \/ \E t \in TokenInputs, p \in Passwords, d \in BOOLEAN :
           ResetPassword(t, p, d)
    \/ \E b \in ContactBodies, d \in BOOLEAN : Contact(b, d)
    \/ AuthTick

SpecAuth == InitAuth /\ [][NextAuth]_vars

\* the request whose effect was stored and whose email then failed
EmailFailed(reply) == "emailFailed" \in DOMAIN reply /\ reply.emailFailed

\* C21: when the welcome email, the password-reset confirmation or the
\* contact notification fails, the request is still answered with success and
\* its effect is stored: the new user exists and a token is returned, the
\* password is the new one, the submission is in the collection.
C21_EmailFailureNeverFailsTheAction ==
    [][ (history'.requests = history.requests + 1 /\ EmailFailed(response')) =>
          /\ response'.status = 200
          /\ (response'.req = "signup" =>
                /\ "token" \in DOMAIN response'
                /\ \E i \in 1..Len(accounts') : accounts'[i].email = response'.email
                /\ Len(accounts') = Len(accounts) + 1)
          /\ (response'.req = "reset-password" =>
                \E i \in 1..Len(accounts') :
                    /\ accounts'[i].email = response'.email
                    /\ accounts'[i].passwordHash = BcryptHash(response'.password))
          /\ (response'.req = "contact" => Len(contacts') = Len(contacts) + 1)
      ]_vars

\* a signup whose welcome email failed was answered with a token
C21_Witness_SignupDespiteFailedWelcome ==
    /\ response.req = "signup"
    /\ EmailFailed(response)
    /\ response.status = 200
    /\ Len(accounts) = 1

----------------------------------------------------------------------------
(* Who may read the statistics of a module: properties of SpecStats *)

NextStats ==
    \/ \E u \in Users, m \in LedgerModules, a \in LedgerAnswers, s \in SubmitTimes :
           SubmitQuiz(u, m, a, s)
    \/ \E c \in Callers, m \in LedgerModules : GetModuleStats(c, m)

SpecStats == InitLedger /\ [][NextStats]_vars

\* C22: a request for the statistics of a module that is unauthenticated or
\* comes from a user whose role is not admin is never answered with them.
C22_StatsOnlyForAdmins ==
    (response.req = "stats" /\ response.caller.role # "admin") =>
        (response.status \in {401, 403} /\ "stats" \notin DOMAIN response)

----------------------------------------------------------------------------
(* The attempts and the statistics a submission leaves in UserProgress:     *)
(* properties of SpecLedger                                                 *)

\* the attempts stored under a module of a UserProgress document
AttemptsOf(doc, moduleId) ==
    IF doc = NoDoc \/ FindModule(doc.completedModules, moduleId) = 0 THEN << >>
    ELSE doc.completedModules[FindModule(doc.completedModules, moduleId)].quizAttempts

\* a step in which a submission was recorded
Recorded ==
    /\ response'.req = "submit"
    /\ response'.status = 200
    /\ progress' # progress

\* the stored attempts that passed
PassedAttempts(doc) ==
    {i \in 1..Len(AllAttempts(doc.completedModules)) :
        AllAttempts(doc.completedModules)[i].passed}

\* C23: a submission that is recorded adds exactly one attempt under its
\* module, also when it is the first submission for the module; the earlier
\* attempts and the attempts of other modules stay as they were.
C23_SubmissionAddsOneAttempt ==
    [][ Recorded =>
          LET u == response'.user
              m == response'.moduleId
              before == AttemptsOf(progress[u], m)
              after  == AttemptsOf(progress'[u], m)
          IN  /\ Len(after) = Len(before) + 1
              /\ SubSeq(after, 1, Len(before)) = before
              /\ \A other \in LedgerModules \ {m} :
                    AttemptsOf(progress'[u], other) = AttemptsOf(progress[u], other)
      ]_vars

\* C24: a submission that is recorded adds 1 to totalQuizzesAttempted, adds 1
\* to totalQuizzesPass exactly when it passed, and leaves averageQuizScore the
\* mean of the percentages of all stored attempts, the new one among them; so
\* the counters are the numbers of stored attempts and of stored passed
\* attempts.
C24_StatisticsFollowAttempts ==
    [][ Recorded =>
          LET u == response'.user
              old == progress[u]
              new == progress'[u]
              stored == AllAttempts(new.completedModules)
          IN  /\ new.statistics.totalQuizzesAttempted
                   = old.statistics.totalQuizzesAttempted + 1
              /\ new.statistics.totalQuizzesPass
                   = old.statistics.totalQuizzesPass
                       + (IF response'.passed THEN 1 ELSE 0)
              /\ new.statistics.averageQuizScore = AverageScore(stored)
              /\ Len(stored) = Len(AllAttempts(old.completedModules)) + 1
              /\ new.statistics.totalQuizzesAttempted = Len(stored)
              /\ new.statistics.totalQuizzesPass = Cardinality(PassedAttempts(new))
      ]_vars

----------------------------------------------------------------------------
(* The limiter of password-reset requests: properties of SpecLimiter *)

NextLimiter ==
    \/ \E e \in EmailInputs, d \in BOOLEAN : ForgotPassword(e, d)
    \/ AuthTick

\* one build, and a users collection with or without the user
InitLimiter == InitAuthWith(MaxResetRequests) /\ ~strictQuery

SpecLimiter == InitLimiter /\ [][NextLimiter]_vars

\* the admitted attempts of an email that are less than one hour old at t
AdmittedWithinHour(log, email, t) ==
    {i \in 1..Len(log.admitted[email]) : t - log.admitted[email][i] < HourMinutes}

\* C25: a forgot-password request is answered 429 exactly when 5 admitted
\* attempts of its email are less than one hour old; a rejected request
\* generates no token and records no attempt; so at most 5 attempts of one
\* email are admitted within an hour.
C25_FiveResetRequestsPerHour ==
    [][ ( /\ history'.requests = history.requests + 1
          /\ response'.req = "forgot-password"
          /\ response'.email # "" ) =>
          LET email == response'.email IN
          /\ response'.status = 429
               <=> Cardinality(AdmittedWithinHour(history, email, now)) >= 5
          /\ response'.status = 429 =>
               /\ history'.tokens = history.tokens
               /\ history'.admitted = history.admitted
               /\ resetAttempts' = resetAttempts
          /\ Cardinality(AdmittedWithinHour(history', email, now)) <= 5
      ]_vars

\* the sixth request of an email within the hour was rejected, and a later one
\* was admitted after the first five had aged out
C25_Witness_AdmittedAgainAfterAnHour ==
    /\ response.req = "forgot-password"
    /\ response.status # 429
    /\ response.email = "a@x.io"
    /\ Len(history.admitted["a@x.io"]) = 6
    /\ history.requests = 7

----------------------------------------------------------------------------
(* Module completions of one user that interleave *)

CompleteRaceModules == {"phishing-basics", "password-security", "no-such-module"}

NextCompleteRace ==
    \/ Tick
    \/ \E r \in Requests, u \in Users, m \in CompleteRaceModules : BeginComplete(r, u, m)
    \/ \E r \in Requests : SaveComplete(r)

SpecCompleteRace == InitWith({"payments"}) /\ [][NextCompleteRace]_vars

\* the sum of the MODULES xp of a list of module ids
RECURSIVE SumXP(_)
SumXP(moduleIds) ==
    IF moduleIds = << >> THEN 0
    ELSE MODULES[Head(moduleIds)].xp + SumXP(Tail(moduleIds))

\* C26: also when completions of one user interleave, completedModules holds
\* each moduleId at most once and totalXP is the sum of the MODULES xp of the
\* modules in completedModules.
C26_CompletedOnceAndXPIsTheirSum ==
    \A u \in Users :
        /\ \A i, j \in 1..Len(users[u].completedModules) :
              users[u].completedModules[i] = users[u].completedModules[j] => i = j
        /\ users[u].totalXP = SumXP(users[u].completedModules)

----------------------------------------------------------------------------
(* What turns a user into a premium user: a property of Spec *)

\* C27: a user's isPremium goes from false to true only by a transaction that
\* is successful, carries that user's id in its metadata and has the amount
\* of the activated plan (999900 kobo monthly, 9999900 annual), on the verify
\* path and on the charge.success webhook path.
C27_PremiumOnlyByMatchingPayment ==
    [][ \A u \in Users :
          (~users[u].isPremium /\ users'[u].isPremium) =>
              LET reference == users'[u].paystackReference
                  plan == users'[u].subscriptionPlan
              IN  /\ reference \in DOMAIN Transactions
                  /\ Transactions[reference].status = "success"
                  /\ Transactions[reference].userId = u
                  /\ plan \in {"monthly", "annual"}
                  /\ Transactions[reference].amount = expectedAmounts(plan)
      ]_vars

----------------------------------------------------------------------------
(* Bounds of a grading result: a property of SpecScore *)

\* the points of a set of questions, as scoreQuiz counts them
RECURSIVE BankPoints(_)
BankPoints(questions) ==
    IF questions = {} THEN 0
    ELSE LET q == CHOOSE x \in questions : TRUE
         IN  PointsFor(q) + BankPoints(questions \ {q})

\* C28: for every graded submission 0 <= score <= totalPoints <= the sum of
\* the points of the questions of the module's bank, also when a questionId is
\* submitted more than once or bank questions are left out; so the
\* percentage is between 0 and 100 whenever totalPoints > 0.
C28_ScoreWithinBankPoints ==
    (response.req = "scoreQuiz" /\ response.result.error = "none") =>
        LET r == response.result IN
        /\ 0 <= r.score
        /\ r.score <= r.totalPoints
        /\ r.totalPoints <= BankPoints(BankOf(response.moduleId))
        /\ r.totalPoints > 0 => (0 <= r.percentage /\ r.percentage <= 100)

----------------------------------------------------------------------------
(* The life of a password-reset token: a property of SpecAuth *)

\* the token was issued by a forgot-password request
Issued(token) == token \in 1..Len(history.tokens)

\* a later forgot-password request of the same user issued another token
Replaced(token) ==
    /\ Issued(token)
    /\ \E later \in 1..Len(history.tokens) :
          later > token /\ history.tokens[later].owner = history.tokens[token].owner

\* the hour of the token has passed
TokenExpired(token) == Issued(token) /\ history.tokens[token].expires <= now

\* C29: a reset-password request is rejected when its token was already used
\* for a reset that succeeded, when the hour of the token has passed, or when
\* a newer forgot-password request of the same user has replaced the token;
\* and a rejected request leaves every password as it was.
C29_ResetTokenSingleUseAndTimeLimited ==
    [][ (history'.requests = history.requests + 1 /\ response'.req = "reset-password") =>
          /\ ( \/ response'.token \in history.used
               \/ TokenExpired(response'.token)
               \/ Replaced(response'.token) ) => response'.status = 400
          /\ response'.status = 400 => accounts' = accounts
      ]_vars

----------------------------------------------------------------------------
(* The two XP ledgers: a property of SpecLedger *)

\* C30: a quiz submission changes only the UserProgress record and leaves the
\* User record (totalXP, level, streak, lastActivity, completedModules, which
\* the leaderboard and the stats read) as it was; a module completion changes
\* only the User record.
C30_LedgersDisjoint ==
    [][ /\ response'.req = "submit" =>
             /\ users' = users
             /\ \A u \in Users :
                   /\ users'[u].totalXP = users[u].totalXP
                   /\ users'[u].level = users[u].level
                   /\ users'[u].streak = users[u].streak
                   /\ users'[u].lastActivity = users[u].lastActivity
                   /\ users'[u].completedModules = users[u].completedModules
        /\ response'.req = "complete" => progress' = progress
      ]_vars

\* a quiz was passed and its XP is in UserProgress, next to a User record whose
\* XP comes from one completed module
C30_Witness_QuizXPNotInUser ==
    /\ response.req = "submit"
    /\ response.status = 200
    /\ response.passed
    /\ progress[response.user].totalXP = XpPerLevel
    /\ users[response.user].totalXP = MODULES["phishing-basics"].xp

====
